---- MODULE Spec2Model ----
(***************************************************************************)
(* Authentication core of the SSO daemon: the session manager over the     *)
(* SQLite store, the checkAuth IPC handler, the invitation manager and     *)
(* the /auth/callback sign-up flow of the web server.                      *)
(*                                                                         *)
(* Time is counted in days.  better-sqlite3 statements are synchronous, so *)
(* a handler runs atomically up to its next await.                         *)
(***************************************************************************)
EXTENDS Integers, Sequences, FiniteSets, TLC

\* ------------------------------------------------------------------ bounds
MaxNow == 100
MaxUuid == 6
MaxNonce == 2
MaxMessageId == 2
MaxMillis == 180000
MaxAttempts == 12
MaxNodes == 3
MaxElapsed == 320000

\* --------------------------------------------------------------- constants
SESSION_COOKIE_MAX_AGE_DAYS == 90
REFRESH_DAYS == 50
INVITE_DAYS == 30
SESSION_VALIDITY_DAYS == 7

NULL == -1

\* the throttle of checkInvitationCode, in milliseconds
WINDOW_MS == 60000
BASE_DELAY_MS == 500
MAX_DELAY_MS == 60000
SUCCESS_DELAY_MS == 1000

\* createLRUCache<string, Session>(20) of the web server
SESSION_STORE_MAX == 20

\* setTimeout(..., 30_000) of scheduleCleanup
CLEANUP_DELAY_MS == 30000

TickDays == {40, 50}
Providers == {"github", "google"}
ProviderUserIds == {"p1", "p2"}
Codes == {"apple crane delta", "frost lemon river"}
ReqIds == {0, 1}
Flows == {1, 2}

VARIABLES
    now,          \* datetime('now'), in days
    nextUuid,     \* crypto.randomUUID(): the next unused identifier
    users,        \* table users
    accounts,     \* table accounts
    sessions,     \* table sessions
    invites,      \* table invites
    timeoutId,    \* scheduleCleanup: the timer set last, NULL once it has fired
    timers,       \* the timers pending in the event loop, each with the
                  \* milliseconds left until it fires
    sweepAge,     \* the milliseconds since the sweep ran last, NULL before
    nonce,        \* salt/IV randomness consumed by encrypt so far
    cookies,      \* ciphertexts handed out so far
    request,      \* the IPC request handled last
    reply,        \* the IPC message emitted last
    flow,         \* /auth/callback requests in flight
    millis,       \* Date.now(): the milliseconds since day `now` began
    lastAttemptTime,   \* invitation manager throttle state
    attemptBatchCount,
    lastOp,       \* the operation run last, its argument and its result
    lru,          \* the session store of the web server: createLRUCache(max)
    lruRef,       \* a reference LRU map fed the same calls, oldest first
    state,        \* client: the connection state
    messageId,    \* client: the next correlation id
    checkAuthCache,  \* client: cookie value -> the promise cached for it
    listeners,    \* client: response handlers registered, each with its timer
    evictions,    \* client: pending timers that delete a cache entry
    promises,     \* client: the promises returned to callers
    callers,      \* client: the checkAuth calls that were returned a promise,
                  \* each with the host and the path it passed
    toServer,     \* messages emitted by the client, not yet handled
    toClient      \* messages emitted by the server, not yet delivered

clientVars == <<state, messageId, checkAuthCache, listeners, evictions,
                promises, toServer, toClient>>

vars == <<now, nextUuid, users, accounts, sessions, invites, timeoutId, timers,
          sweepAge, nonce,
          cookies, request, reply, flow, millis, lastAttemptTime,
          attemptBatchCount, lastOp, lru, lruRef, state, messageId,
          checkAuthCache,
          listeners, evictions, promises, callers, toServer, toClient>>

dbVars == <<users, accounts, sessions, invites>>
timerVars == <<timeoutId, timers, sweepAge>>
lruVars == <<lru, lruRef>>

\* `let lastAttemptTime = 0`: the epoch, long before day 0
Epoch == [day |-> NULL, ms |-> 0]
ipcVars == <<request, reply>>
inviteVars == <<millis, lastAttemptTime, attemptBatchCount>>

\* ------------------------------------------------------------ the store
EmailOf(providerUserId) == <<providerUserId, "@mail">>

SessionIds(S) == {s.id : s \in S}

getSessionStmt_orEqual(S, sessionId, t) ==
    {s \in S : s.id = sessionId /\ s.expires_at >= t}

getSessionStmt_anyExpiry(S, sessionId, t) ==
    {s \in S : s.id = sessionId}

\* getSessionStmt: WHERE sessions.id = ? AND sessions.expires_at > datetime('now')
getSessionStmt(S, sessionId, t) ==
    {s \in S : s.id = sessionId /\ s.expires_at > t}

refreshSessionStmt_cumulative(S, sessionId, t) ==
    {IF s.id = sessionId THEN [s EXCEPT !.expires_at = s.expires_at + 50] ELSE s : s \in S}

\* refreshSessionStmt: UPDATE sessions SET expires_at = datetime('now', '+50 days') WHERE id = ?
refreshSessionStmt(S, sessionId, t) ==
    {IF s.id = sessionId THEN [s EXCEPT !.expires_at = t + REFRESH_DAYS] ELSE s : s \in S}

\* createSessionStmt: INSERT ... datetime('now', '+${SESSION_COOKIE_MAX_AGE_DAYS} days')
createSessionStmt(S, id, userId, accountId, t) ==
    S \cup {[id |-> id, user_id |-> userId, account_id |-> accountId,
             expires_at |-> t + SESSION_COOKIE_MAX_AGE_DAYS]}

\* getUserAccountByProviderStmt: WHERE provider = ? AND provider_user_id = ?
getUserAccountByProviderStmt(A, provider, providerUserId) ==
    {a \in A : a.provider = provider /\ a.provider_user_id = providerUserId}

\* getAccountByUserStmt: WHERE user_id = ? AND provider = ?
getAccountByUserStmt(A, userId, provider) ==
    {a \in A : a.user_id = userId /\ a.provider = provider}

\* invalidateSessionsForUserStmt: DELETE FROM sessions WHERE user_id = ? AND id != ?
invalidateSessionsForUserStmt(S, userId, exceptSessionId) ==
    {s \in S : ~(s.user_id = userId /\ s.id # exceptSessionId)}

cleanupStmt_beforeNow(S, t) == {s \in S : ~(s.expires_at < t)}

\* the sweep statement: DELETE FROM sessions WHERE expires_at <= datetime('now')
cleanupStmt(S, t) == {s \in S : ~(s.expires_at <= t)}

createSession_keepOthers(S, userId, accountId, sessionId, t) ==
    S \cup {[id |-> sessionId, user_id |-> userId, account_id |-> accountId,
             expires_at |-> t + 90]}

\* createSession(userId, accountId) with sessionId = crypto.randomUUID()
createSession(S, userId, accountId, sessionId, t) ==
    invalidateSessionsForUserStmt(
        createSessionStmt(S, sessionId, userId, accountId, t), userId, sessionId)

SessionsOfUser(S, userId) == {s \in S : s.user_id = userId}

\* SELECT of one row: any row of a non-empty result
OneOf(rows) == CHOOSE r \in rows : TRUE

\* the operation run last: its argument, the id and the rows it returned or
\* deleted, and the number of rows its last statement changed
Op(name, arg, retId, rows, changes) ==
    [op |-> name, arg |-> arg, retId |-> retId, rows |-> rows,
     changes |-> changes]

\* the same, with the arguments of the call
OpOn(name, arg, retId, rows, changes, input) ==
    [op |-> name, arg |-> arg, retId |-> retId, rows |-> rows,
     changes |-> changes, input |-> input]

\* no row: what a SELECT .get() of an empty result stands for
NoRow == [id |-> NULL, user_id |-> NULL]

NoMessage == [id |-> NULL]
NoRequest == [id |-> NULL]

\* ------------------------------------------------------------ lru-cache.ts
\* The cache is the closure of createLRUCache: the Map `cache` from keys to
\* nodes, the nodes ever allocated with their prev and next links, and the
\* `oldest` and `newest` references; undefined is NULL.
LruKeys == {"a", "b", "c"}
LruValues == {1, 2}
LruMaxes == {1, 2}

createLRUCache(max) ==
    [max |-> max, cache |-> {}, nodes |-> <<>>, oldest |-> NULL,
     newest |-> NULL]

\* cache.get(key): the node, or NULL
cacheGet(L, key) ==
    IF \E e \in L.cache : e.key = key
    THEN (CHOOSE e \in L.cache : e.key = key).node
    ELSE NULL

\* cache.delete(key)
cacheDelete(L, key) == [L EXCEPT !.cache = {e \in L.cache : e.key # key}]

\* node.field = value
assign(L, node, field, value) == [L EXCEPT !.nodes[node][field] = value]

\* touch(entry), statement by statement
touch(L, entry) ==
    IF L.nodes[entry].next = NULL THEN L
    ELSE IF L.nodes[entry].prev = NULL
    THEN LET L1 == assign(L, L.nodes[entry].next, "prev", NULL)
             L2 == [L1 EXCEPT !.oldest = L1.nodes[entry].next]
             L3 == assign(L2, entry, "next", NULL)
             L4 == IF L3.newest # NULL
                   THEN assign(assign(L3, entry, "prev", L3.newest),
                               L3.newest, "next", entry)
                   ELSE L3
         IN  [L4 EXCEPT !.newest = entry]
    ELSE LET L1 == assign(L, L.nodes[entry].prev, "next", L.nodes[entry].next)
             L2 == assign(L1, L1.nodes[entry].next, "prev", L1.nodes[entry].prev)
             L3 == assign(L2, entry, "next", NULL)
             L4 == IF L3.newest # NULL
                   THEN assign(assign(L3, L3.newest, "next", entry),
                               entry, "prev", L3.newest)
                   ELSE L3
         IN  [L4 EXCEPT !.newest = entry]

\* get(key, cb): the cache afterwards, and the value passed to cb
get(L, key) ==
    LET entry == cacheGet(L, key)
    IN  IF entry = NULL THEN L ELSE touch(L, entry)

getValue(L, key) ==
    LET entry == cacheGet(L, key)
    IN  IF entry = NULL THEN NULL ELSE L.nodes[entry].value

\* the first block of set: a full cache gives up `oldest`
evict(L) ==
    IF Cardinality(L.cache) >= L.max /\ L.oldest # NULL
    THEN LET toDelete == L.oldest
             L1 == cacheDelete(L, L.nodes[toDelete].key)
             L2 == IF L1.nodes[toDelete].next # NULL
                   THEN assign([L1 EXCEPT !.oldest = L1.nodes[toDelete].next],
                               L1.nodes[toDelete].next, "prev", NULL)
                   ELSE L1
         IN  IF toDelete = L2.newest THEN [L2 EXCEPT !.newest = NULL] ELSE L2
    ELSE L

\* the second block of set: update and touch, or append a new node
put(L, key, value) ==
    LET existing == cacheGet(L, key)
        entry == Len(L.nodes) + 1
        L1 == [L EXCEPT !.nodes = Append(L.nodes,
                   [key |-> key, value |-> value, prev |-> L.newest,
                    next |-> NULL])]
        L2 == IF L1.newest # NULL
              THEN assign(L1, L1.newest, "next", entry) ELSE L1
        L3 == [L2 EXCEPT !.newest = entry]
        L4 == IF L3.oldest = NULL THEN [L3 EXCEPT !.oldest = entry] ELSE L3
    IN  IF existing # NULL
        THEN touch(assign(L, existing, "value", value), existing)
        ELSE [L4 EXCEPT !.cache = L4.cache \cup {[key |-> key, node |-> entry]}]

\* set(key, value, cb)
set(L, key, value) == put(evict(L), key, value)

\* destroy(key, cb)
destroy(L, key) ==
    LET entry == cacheGet(L, key)
        prev == L.nodes[entry].prev
        next == L.nodes[entry].next
        L1 == IF prev # NULL THEN assign(L, prev, "next", next)
              ELSE [L EXCEPT !.oldest = next]
        L2 == IF next # NULL THEN assign(L1, next, "prev", prev)
              ELSE [L1 EXCEPT !.newest = prev]
    IN  IF entry = NULL THEN L ELSE cacheDelete(L2, key)

\* clear(cb)
clear(L) == [L EXCEPT !.cache = {}, !.oldest = NULL, !.newest = NULL]

\* the entries of the cache: key and value of every key of the Map
entries(L) ==
    {[key |-> e.key, value |-> L.nodes[e.node].value] : e \in L.cache}

\* The reference: a sequence of entries, least recently used first.
refWithout(R, key) == SelectSeq(R, LAMBDA e : e.key # key)
refHas(R, key) == \E i \in 1..Len(R) : R[i].key = key
refValue(R, key) == (CHOOSE e \in {R[i] : i \in 1..Len(R)} : e.key = key).value

refGet(R, key) ==
    IF refHas(R, key)
    THEN Append(refWithout(R, key), [key |-> key, value |-> refValue(R, key)])
    ELSE R

refSet(R, max, key, value) ==
    IF refHas(R, key)
    THEN Append(refWithout(R, key), [key |-> key, value |-> value])
    ELSE Append(IF Len(R) >= max THEN Tail(R) ELSE R,
                [key |-> key, value |-> value])

refEntries(R) == {R[i] : i \in 1..Len(R)}

\* the calls on the cache
lruFrame ==
    UNCHANGED <<now, nextUuid, dbVars, timerVars, nonce, cookies, ipcVars,
                flow, inviteVars, clientVars, callers>>

LruGet(key) ==
    /\ lru' = get(lru, key)
    /\ lruRef' = refGet(lruRef, key)
    /\ lastOp' = OpOn("lru.get", getValue(lru, key), NULL, {}, 0, key)
    /\ lruFrame

LruSet(key, value) ==
    /\ Len(lru.nodes) < MaxNodes
    /\ lru' = set(lru, key, value)
    /\ lruRef' = refSet(lruRef, lru.max, key, value)
    /\ lastOp' = OpOn("lru.set", NULL, NULL, {}, 0, key)
    /\ lruFrame

LruDestroy(key) ==
    /\ lru' = destroy(lru, key)
    /\ lruRef' = refWithout(lruRef, key)
    /\ lastOp' = OpOn("lru.destroy", NULL, NULL, {}, 0, key)
    /\ lruFrame

LruClear ==
    /\ lru' = clear(lru)
    /\ lruRef' = <<>>
    /\ lastOp' = OpOn("lru.clear", NULL, NULL, {}, 0, "")
    /\ lruFrame

\* the daemon after construction, with the session store L
InitOf(L) ==
    /\ now = 0
    /\ nextUuid = 1
    /\ users = {}
    /\ accounts = {}
    /\ sessions = {}
    /\ invites = {}
    /\ timeoutId = NULL
    /\ timers = {}
    /\ sweepAge = NULL
    /\ nonce = 0
    /\ cookies = {}
    /\ request = NoRequest
    /\ reply = NoMessage
    /\ flow = [f \in Flows |-> [pc |-> "idle"]]
    /\ millis = 0
    /\ lastAttemptTime = Epoch
    /\ lru = L
    /\ lruRef = <<>>
    /\ attemptBatchCount = 0
    /\ lastOp = Op("init", NULL, NULL, {}, 0)
    /\ state = "connecting"
    /\ messageId = 0
    /\ checkAuthCache = {}
    /\ listeners = {}
    /\ evictions = {}
    /\ promises = {}
    /\ callers = {}
    /\ toServer = {}
    /\ toClient = {}

Init == InitOf(createLRUCache(SESSION_STORE_MAX))

\* ------------------------------------------------------ session manager
\* Each operation is given as its effect on the store; the actions further
\* down run one operation as a step of its own.

\* setTimeout(callback, delay): a new timer, and its handle
timerId(T) == CHOOSE i \in 1..(Cardinality(T) + 1) : \A timer \in T : timer.id # i

setTimeout(T, delay) == T \cup {[id |-> timerId(T), remaining |-> delay]}

clearTimeout(T, id) == {timer \in T : timer.id # id}

\* scheduleCleanup() that sets a timer and leaves the pending one
scheduleCleanup_stacked ==
    /\ timers' = setTimeout(timers, CLEANUP_DELAY_MS)
    /\ timeoutId' = timerId(timers)
    /\ UNCHANGED sweepAge

\* scheduleCleanup(): clearTimeout of the pending timer, then setTimeout of
\* the sweep
scheduleCleanup ==
    LET cleared == IF timeoutId # NULL
                   THEN clearTimeout(timers, timeoutId)
                   ELSE timers
    IN  /\ timers' = setTimeout(cleared, CLEANUP_DELAY_MS)
        /\ timeoutId' = timerId(cleared)
        /\ UNCHANGED sweepAge

\* d milliseconds pass for the timers
elapse(d) ==
    /\ timers' = {[timer EXCEPT !.remaining = IF @ > d THEN @ - d ELSE 0] :
                    timer \in timers}
    /\ sweepAge' = IF sweepAge = NULL THEN NULL
                   ELSE IF sweepAge + d < CLEANUP_DELAY_MS THEN sweepAge + d
                   ELSE CLEANUP_DELAY_MS
    /\ UNCHANGED timeoutId

\* createSessionForProvider: the rows matching the provider identity
createSessionForProviderRows(provider, providerUserId) ==
    getUserAccountByProviderStmt(accounts, provider, providerUserId)

createSessionForProvider_ownerAsAccount(userRows, userRow) ==
    IF userRows = {}
    THEN UNCHANGED <<sessions, nextUuid, timerVars>>
    ELSE /\ nextUuid <= MaxUuid
         /\ userRow \in userRows
         /\ sessions' = createSession(sessions, userRow.user_id, userRow.user_id,
                                      nextUuid, now)
         /\ nextUuid' = nextUuid + 1
         /\ scheduleCleanup

\* createSessionForProvider(provider, providerUserId), returning the new
\* session id for userRow, or null when there is no row
createSessionForProvider(userRows, userRow) ==
    IF userRows = {}
    THEN UNCHANGED <<sessions, nextUuid, timerVars>>
    ELSE /\ nextUuid <= MaxUuid
         /\ userRow \in userRows
         /\ sessions' = createSession(sessions, userRow.user_id, userRow.id,
                                      nextUuid, now)
         /\ nextUuid' = nextUuid + 1
         /\ scheduleCleanup

previousSession_anyExpiry(previousSessionId) ==
    IF previousSessionId # NULL
    THEN {s \in sessions : s.id = previousSessionId}
    ELSE {}

\* createUserWithProvider: the valid session previousSessionId resolves to
previousSession(previousSessionId) ==
    IF previousSessionId # NULL
    THEN getSessionStmt(sessions, previousSessionId, now)
    ELSE {}

\* createUserWithProvider: the id of the session it returns
createUserWithProviderSessionId(provider, previousSessionId) ==
    LET session == previousSession(previousSessionId)
        uuid1 == IF session # {} THEN nextUuid ELSE nextUuid + 1
    IN  IF session # {}
           /\ getAccountByUserStmt(accounts, OneOf(session).user_id, provider) # {}
        THEN uuid1
        ELSE uuid1 + 1

createUserWithProvider(provider, providerUserId, email, previousSessionId) ==
    LET session == previousSession(previousSessionId)
        linked == session # {}
        userId == IF linked THEN OneOf(session).user_id ELSE nextUuid
        uuid1 == IF linked THEN nextUuid ELSE nextUuid + 1
        account == IF linked THEN getAccountByUserStmt(accounts, userId, provider)
                   ELSE {}
        accountId == IF account # {} THEN OneOf(account).id ELSE uuid1
        sessionId == IF account # {} THEN uuid1 ELSE uuid1 + 1
    IN  /\ sessionId <= MaxUuid
        /\ users' = IF linked THEN users
                    ELSE users \cup {[id |-> userId, email |-> email]}
        /\ accounts' = IF account # {} THEN accounts
                       ELSE accounts \cup {[id |-> accountId, user_id |-> userId,
                                            provider |-> provider,
                                            provider_user_id |-> providerUserId]}
        /\ sessions' = createSession(sessions, userId, accountId, sessionId, now)
        /\ nextUuid' = sessionId + 1
        /\ scheduleCleanup

\* time passes
Tick(d) ==
    /\ now + d <= MaxNow
    /\ now' = now + d
    /\ elapse(CLEANUP_DELAY_MS)
    /\ lastOp' = Op("tick", NULL, NULL, {}, 0)
    /\ UNCHANGED <<clientVars, callers, lruVars>>
    /\ UNCHANGED <<nextUuid, dbVars, nonce, cookies, ipcVars, flow,
                   inviteVars>>

GetSessionWithUser(sessionId) ==
    /\ scheduleCleanup
    /\ lastOp' = Op("getSessionWithUser", sessionId, NULL,
                    getSessionStmt(sessions, sessionId, now), 0)
    /\ UNCHANGED <<clientVars, callers, lruVars>>
    /\ UNCHANGED <<now, nextUuid, dbVars, nonce, cookies, ipcVars, flow,
                   inviteVars>>

RefreshSession(sessionId) ==
    /\ sessions' = refreshSessionStmt(sessions, sessionId, now)
    /\ lastOp' = Op("refreshSession", sessionId, NULL, {},
                    Cardinality({s \in sessions : s.id = sessionId}))
    /\ UNCHANGED <<clientVars, callers, lruVars>>
    /\ UNCHANGED <<now, nextUuid, users, accounts, invites, timerVars, nonce,
                   cookies, ipcVars, flow, inviteVars>>

CreateSessionForProvider(provider, providerUserId) ==
    LET userRows == createSessionForProviderRows(provider, providerUserId)
    IN  /\ \E userRow \in IF userRows = {} THEN {NoRow} ELSE userRows :
              /\ createSessionForProvider(userRows, userRow)
              /\ lastOp' = IF userRows = {}
                           THEN OpOn("createSessionForProvider", NULL, NULL, {}, 0,
                                     <<provider, providerUserId>>)
                           ELSE OpOn("createSessionForProvider", userRow.user_id,
                                     nextUuid,
                                     SessionsOfUser(sessions, userRow.user_id),
                                     Cardinality(SessionsOfUser(sessions,
                                                                userRow.user_id)),
                                     <<provider, providerUserId>>)
        /\ UNCHANGED <<clientVars, callers, lruVars>>
        /\ UNCHANGED <<now, users, accounts, invites, nonce, cookies, ipcVars,
                       flow, inviteVars>>

CreateUserWithProvider(provider, providerUserId, email, previousSessionId) ==
    /\ createUserWithProvider(provider, providerUserId, email, previousSessionId)
    /\ lastOp' = OpOn("createUserWithProvider", previousSessionId,
                      createUserWithProviderSessionId(provider, previousSessionId),
                      previousSession(previousSessionId), 0,
                      <<provider, providerUserId>>)
    /\ UNCHANGED <<clientVars, callers, lruVars>>
    /\ UNCHANGED <<now, invites, nonce, cookies, ipcVars, flow, inviteVars>>

\* the timer callback of scheduleCleanup
Cleanup ==
    /\ \E timer \in timers :
          /\ timer.remaining = 0
          /\ timers' = timers \ {timer}
    /\ timeoutId' = NULL
    /\ sweepAge' = 0
    /\ sessions' = cleanupStmt(sessions, now)
    /\ lastOp' = Op("cleanup", NULL, NULL, {},
                    Cardinality(sessions) - Cardinality(cleanupStmt(sessions, now)))
    /\ UNCHANGED <<clientVars, callers, lruVars>>
    /\ UNCHANGED <<now, nextUuid, users, accounts, invites, nonce, cookies,
                   ipcVars, flow, inviteVars>>

\* ------------------------------------------------- cookie cryptography
\* A plaintext string: a bare session id, or the JSON text of session data.
Str(sessionId) == [json |-> FALSE, sessionId |-> sessionId]

\* the long-lived secret the keys are derived from
Secret == "ENCRYPTION_KEY"

\* the key derived from the secret with a salt and an iteration count
deriveKey(secret, salt, iterations) ==
    [secret |-> secret, salt |-> salt, iterations |-> iterations]

\* the AEAD cipher, symbolically: a ciphertext opens under the key and the IV
\* it was made with, and under no other
cipher(key, iv, plaintext) == [key |-> key, iv |-> iv, body |-> plaintext]

decipher(key, iv, ciphertext) ==
    IF ciphertext.key = key /\ ciphertext.iv = iv
    THEN {ciphertext.body}
    ELSE {}

\* the authentication tag of a ciphertext under the key and the IV
authTag(key, iv, ciphertext) == [key |-> key, iv |-> iv, of |-> ciphertext]

\* encrypt(plaintext) with the iteration count, the salt and the IV drawn at
\* this call; the wire format is iterations | salt | iv | authTag | ciphertext
encrypt(plaintext, random) ==
    LET key == deriveKey(Secret, random, random)
    IN  [kind |-> "enc", iterations |-> random, salt |-> random, iv |-> random,
         authTag |-> authTag(key, random, cipher(key, random, plaintext)),
         ciphertext |-> cipher(key, random, plaintext)]

\* a cookie that is no output of encrypt (truncated, tampered, wrong key)
Garbage == [kind |-> "garbage"]
\* the empty string
EmptyCookie == [kind |-> "empty"]

\* decrypt(cipherText): {success: plaintext} | {error}
decrypt(cipherText) ==
    IF cipherText.kind # "enc"
    THEN [success |-> {}]
    ELSE LET key == deriveKey(Secret, cipherText.salt, cipherText.iterations)
         IN  IF cipherText.authTag
                  = authTag(key, cipherText.iv, cipherText.ciphertext)
             THEN [success |-> decipher(key, cipherText.iv,
                                        cipherText.ciphertext)]
             ELSE [success |-> {}]

decryptSessionCookie_parsed(cipherText) ==
    [success |-> {pt \in decrypt(cipherText).success : pt.json}]

decryptSessionCookie(cipherText) == decrypt(cipherText)

\* encryptSessionCookie(sessionId), as the web server calls it on the
\* session it has just created
encryptSessionCookie(sessionId) ==
    /\ nonce < MaxNonce
    /\ cookies' = cookies \cup {encrypt(Str(sessionId), nonce)}
    /\ nonce' = nonce + 1

EncryptSessionCookie(sessionId) ==
    /\ encryptSessionCookie(sessionId)
    /\ lastOp' = Op("encryptSessionCookie", sessionId, NULL, {}, 0)
    /\ UNCHANGED <<clientVars, callers, lruVars>>
    /\ UNCHANGED <<now, nextUuid, dbVars, timerVars, ipcVars, flow, inviteVars>>

\* ------------------------------------------------------------- domain.ts
\* host names are sequences of labels: "app.example.com" is <<"app","example","com">>
ORIGIN == <<"sso", "example", "com">>
hostname == ORIGIN

Suffix(seq, k) == SubSeq(seq, Len(seq) - k + 1, Len(seq))

domain == IF hostname = <<"localhost">> THEN hostname ELSE Suffix(hostname, 2)

\* A host string is the sequence of its dot-separated labels; a string that
\* goes on after the host name ends with what follows it, as one element.
AfterHost == {"/x"}

\* new URL(`http://${host}`).host: the host name without what follows it
urlHost(host) == SelectSeq(host, LAMBDA l : l \notin AfterHost)

validateRedirectHost_lastLabel(host) ==
    /\ Len(urlHost(host)) > 1
    /\ Suffix(urlHost(host), 1) = Suffix(domain, 1)

\* url.host.endsWith(`.${domain}`); new URL throws on the empty host
validateRedirectHost(host) ==
    IF domain = <<"localhost">>
    THEN host = <<"localhost">>
    ELSE /\ Len(urlHost(host)) > Len(domain)
         /\ Suffix(urlHost(host), Len(domain)) = domain

\* ------------------------------------------------------------ IPC server
\* An optional string is the set of its values: {} when absent.
Truthy(opt, empty) == opt # {} /\ opt # {empty}

buildRedirect_anyHost(targetHost, targetPath) ==
    [origin |-> <<"sso", "example", "com">>,
     host |-> targetHost,
     path |-> IF targetPath # {} /\ targetPath # {""} THEN targetPath ELSE {}]

buildRedirect(targetHost, targetPath) ==
    [origin |-> ORIGIN,
     host |-> IF validateRedirectHost(targetHost) THEN targetHost ELSE domain,
     path |-> IF Truthy(targetPath, "") THEN targetPath ELSE {}]

Unauthenticated(id, redirect) ==
    [id |-> id, authenticated |-> FALSE, redirect |-> redirect]

Authenticated_sessionAsUser(id, userId, cookie) ==
    [id |-> id, authenticated |-> TRUE, user_id |-> OneOf(decrypt(cookie).success).sessionId,
     cookie |-> cookie]

Authenticated(id, userId, cookie) ==
    [id |-> id, authenticated |-> TRUE, user_id |-> userId, cookie |-> cookie]

\* safeParse(CheckAuthSchema, data).success
CheckAuthSchema(data) == data.shape = "ok"

\* what the handler of 'checkAuth' emits and does to the sessions
checkAuthSessionId(data) ==
    LET plain == decryptSessionCookie(OneOf(data.sessionCookie)).success
    IN  IF plain = {} \/ OneOf(plain).json THEN NULL ELSE OneOf(plain).sessionId

checkAuthOutcome(data) ==
    IF ~CheckAuthSchema(data) THEN "invalid"
    ELSE IF ~Truthy(data.sessionCookie, EmptyCookie) THEN "noCookie"
    ELSE IF decryptSessionCookie(OneOf(data.sessionCookie)).success = {}
         THEN "decryptError"
    ELSE IF getSessionStmt(sessions, checkAuthSessionId(data), now) = {}
         THEN "noSession"
    ELSE "authenticated"

checkAuthReply_echoCookie(data, outcome, newCookie) ==
    IF outcome = "invalid"
    THEN Unauthenticated(data.id, buildRedirect(<<>>, {}))
    ELSE IF outcome \in {"noCookie", "decryptError", "noSession"}
    THEN Unauthenticated(data.id, buildRedirect(data.host, data.path))
    ELSE Authenticated(data.id,
             OneOf(getSessionStmt(sessions, checkAuthSessionId(data), now)).user_id,
             OneOf(data.sessionCookie))

checkAuthReply(data, outcome, newCookie) ==
    IF outcome = "invalid"
    THEN Unauthenticated(data.id, buildRedirect(<<>>, {}))
    ELSE IF outcome \in {"noCookie", "decryptError", "noSession"}
    THEN Unauthenticated(data.id, buildRedirect(data.host, data.path))
    ELSE Authenticated(data.id,
             OneOf(getSessionStmt(sessions, checkAuthSessionId(data), now)).user_id,
             newCookie)

checkAuth(data) ==
    LET outcome == checkAuthOutcome(data)
        sessionId == checkAuthSessionId(data)
        newCookie == encrypt(Str(sessionId), nonce)
    IN  /\ request' = data
        /\ reply' = checkAuthReply(data, outcome, newCookie)
        /\ lastOp' = Op("checkAuth", NULL, NULL, {}, 0)
        /\ IF outcome \in {"invalid", "noCookie", "decryptError"}
           THEN UNCHANGED <<sessions, timerVars, nonce, cookies>>
           ELSE IF outcome = "noSession"
           THEN /\ scheduleCleanup
                /\ UNCHANGED <<sessions, nonce, cookies>>
           ELSE /\ scheduleCleanup
                /\ sessions' = refreshSessionStmt(sessions, sessionId, now)
                /\ encryptSessionCookie(sessionId)
        /\ UNCHANGED <<now, nextUuid, users, accounts, invites, flow, inviteVars>>

Hosts == {<<"app", "example", "com">>, <<"a", "b", "example", "com">>,
          <<"app", "example", "com", "/x">>, <<"evil", "com", "/x">>,
          <<"example", "com">>, <<"evil", "com">>, <<"localhost">>, <<>>}
Paths == {{}, {""}, {"/dashboard"}}

\* requests that carry no usable cookie, from any host and path
NoCookieRequests ==
    [id : ReqIds, shape : {"ok"}, sessionCookie : {{}, {EmptyCookie}, {Garbage}},
     host : Hosts, path : Paths]
    \cup [id : ReqIds, shape : {"bad"}, sessionCookie : {{}},
          host : {<<>>}, path : {{}}]

\* requests of one application with a cookie a client holds, or a forged one
CookieRequests ==
    [id : ReqIds, shape : {"ok"},
     sessionCookie : {{Garbage}} \cup {{c} : c \in cookies},
     host : {<<"app", "example", "com">>}, path : {{"/dashboard"}}]

\* ------------------------------------- IPC server with session data cookies
activeProviders == Providers

\* JSON.stringify(data) of a SessionData object
stringify(data) ==
    [json |-> TRUE, sessionId |-> data.sessionId, provider |-> data.provider,
     expiresAt |-> data.expiresAt]

\* safeParse(SessionDataSchema, plaintext).success
SessionDataSchema(plaintext) ==
    /\ plaintext.json
    /\ plaintext.provider \in activeProviders

encryptSessionData(data) ==
    /\ nonce < MaxNonce
    /\ cookies' = cookies \cup {encrypt(stringify(data), nonce)}
    /\ nonce' = nonce + 1

\* decryptSessionData(cookieValue): {data} on success, {} on error
decryptSessionData(cookieValue) ==
    {pt \in decryptSessionCookie(cookieValue).success : SessionDataSchema(pt)}

EncryptSessionData(sessionId, provider) ==
    /\ encryptSessionData([sessionId |-> sessionId, provider |-> provider,
                           expiresAt |-> now + SESSION_VALIDITY_DAYS])
    /\ lastOp' = Op("encryptSessionData", sessionId, NULL, {}, 0)
    /\ UNCHANGED <<clientVars, callers, lruVars>>
    /\ UNCHANGED <<now, nextUuid, dbVars, timerVars, ipcVars, flow, inviteVars>>

buildRedirectTo(pathname, targetHost, targetPath) ==
    [origin |-> ORIGIN,
     pathname |-> pathname,
     host |-> IF targetHost = <<>> THEN <<>>
              ELSE IF validateRedirectHost(targetHost) THEN targetHost
              ELSE domain,
     path |-> IF targetHost # <<>> /\ Truthy(targetPath, "")
              THEN targetPath ELSE {}]

AuthenticatedUser(id, userId) ==
    [id |-> id, authenticated |-> TRUE, user_id |-> userId]

checkAuthDataOutcome(data) ==
    IF ~CheckAuthSchema(data) THEN "invalid"
    ELSE IF ~Truthy(data.sessionCookie, EmptyCookie) THEN "noCookie"
    ELSE IF decryptSessionData(OneOf(data.sessionCookie)) = {}
         THEN "decryptError"
    ELSE LET sessionData == OneOf(decryptSessionData(OneOf(data.sessionCookie)))
         IN  IF now > sessionData.expiresAt THEN "expired"
             ELSE IF getSessionStmt(sessions, sessionData.sessionId, now) = {}
                  THEN "noSession"
             ELSE "authenticated"

checkAuthDataReply(data, outcome) ==
    IF outcome = "invalid"
    THEN Unauthenticated(data.id, buildRedirectTo(<<"/">>, <<>>, {}))
    ELSE IF outcome \in {"noCookie", "decryptError", "noSession"}
    THEN Unauthenticated(data.id, buildRedirectTo(<<"/">>, data.host, data.path))
    ELSE LET sessionData == OneOf(decryptSessionData(OneOf(data.sessionCookie)))
         IN  IF outcome = "expired"
             THEN Unauthenticated(data.id,
                      buildRedirectTo(<<"/submit/", sessionData.provider>>,
                                      data.host, data.path))
             ELSE AuthenticatedUser(data.id,
                      OneOf(getSessionStmt(sessions, sessionData.sessionId,
                                           now)).user_id)

\* the handler of 'checkAuth' that reads session data cookies
checkAuthData(data) ==
    LET outcome == checkAuthDataOutcome(data)
    IN  /\ request' = data
        /\ reply' = checkAuthDataReply(data, outcome)
        /\ lastOp' = Op("checkAuthData", NULL, NULL, {}, 0)
        /\ IF outcome \in {"noSession", "authenticated"}
           THEN scheduleCleanup
           ELSE UNCHANGED timerVars
        /\ UNCHANGED <<clientVars, callers, lruVars>>
        /\ UNCHANGED <<now, nextUuid, dbVars, nonce, cookies, flow, inviteVars>>

\* --------------------------------------------------- invitation manager
InviteCodes(I) == {i.code : i \in I}

\* getInviteStmt: WHERE code = ? AND expires_at > datetime('now')
getInviteStmt(I, code, t) == {i \in I : i.code = code /\ i.expires_at > t}

consumeInviteStmt_everyRow(I, code) == {}

\* consumeInviteStmt: DELETE FROM invites WHERE code = ?
consumeInviteStmt(I, code) == {i \in I : i.code # code}

generateCode_anyCode(existingCodes) == Codes

\* generateCode(existingCodes): the codes its loop can return
generateCode(existingCodes) == Codes \ existingCodes

\* generateInvitationCode(), returning code
generateInvitationCode(code) ==
    /\ code \in generateCode(InviteCodes(invites))
    /\ invites' = invites \cup {[code |-> code, expires_at |-> now + INVITE_DAYS]}

\* checkInvitationCode(code): the value its promise resolves to
checkInvitationCodeResult(code) == getInviteStmt(invites, code, now) # {}

\* Date.now()
DateNow == [day |-> now, ms |-> millis]

\* now - lastAttemptTime < 60_000; instants of different days are at least
\* a day apart
withinWindow(t, last) == t.day = last.day /\ t.ms - last.ms < WINDOW_MS

attemptBatch_neverReset(t, last, count) == count + 1

\* the counter after a failure at t: attemptBatchCount++ or = 1
attemptBatch(t, last, count) ==
    IF withinWindow(t, last) THEN count + 1 ELSE 1

failureDelay_linear(count) ==
    IF count * BASE_DELAY_MS < MAX_DELAY_MS
    THEN count * BASE_DELAY_MS ELSE MAX_DELAY_MS

\* Math.min(attemptBatchCount ** 2 * 500, 60_000)
failureDelay(count) ==
    IF count * count * BASE_DELAY_MS < MAX_DELAY_MS
    THEN count * count * BASE_DELAY_MS ELSE MAX_DELAY_MS

checkInvitationCodeDelay_throttled(code, count) == failureDelay(count)

\* the delay of the setTimeout that resolves the promise of a check that
\* leaves the counter at count
checkInvitationCodeDelay(code, count) ==
    IF checkInvitationCodeResult(code) THEN SUCCESS_DELAY_MS
    ELSE failureDelay(count)

\* checkInvitationCode(code): the part that runs before the promise is
\* returned
checkInvitationCode(code) ==
    IF checkInvitationCodeResult(code)
    THEN UNCHANGED inviteVars
    ELSE /\ attemptBatchCount' =
                attemptBatch(DateNow, lastAttemptTime, attemptBatchCount)
         /\ lastAttemptTime' = DateNow
         /\ UNCHANGED millis

consumeInvitationCode(code) == invites' = consumeInviteStmt(invites, code)

\* time passes within the day
MillisSteps == {59999, 60000}

TickMillis(d) ==
    /\ millis + d <= MaxMillis
    /\ millis' = millis + d
    /\ elapse(d)
    /\ lastOp' = Op("tick", NULL, NULL, {}, 0)
    /\ UNCHANGED <<clientVars, callers, lruVars>>
    /\ UNCHANGED <<now, nextUuid, dbVars, nonce, cookies, ipcVars,
                   flow, lastAttemptTime, attemptBatchCount>>

\* a call of checkInvitationCode(code): the throttle state it found, the
\* value and the delay of its promise
CheckInvitationCode(code) ==
    /\ attemptBatchCount < MaxAttempts
    /\ checkInvitationCode(code)
    /\ lastOp' = OpOn("checkInvitationCode", NULL, NULL,
                      getInviteStmt(invites, code, now), 0,
                      [code |-> code,
                       before |-> <<lastAttemptTime, attemptBatchCount>>,
                       result |-> checkInvitationCodeResult(code),
                       delay |-> checkInvitationCodeDelay(
                                     code, attemptBatchCount')])
    /\ UNCHANGED <<clientVars, callers, lruVars>>
    /\ UNCHANGED <<now, nextUuid, dbVars, timerVars, nonce, cookies, ipcVars,
                   flow>>

\* a call of consumeInvitationCode(code); changes: the rows deleted
ConsumeInvitationCode(code) ==
    /\ consumeInvitationCode(code)
    /\ lastOp' = OpOn("consumeInvitationCode", NULL, NULL, {},
                      Cardinality(invites \ consumeInviteStmt(invites, code)),
                      [code |-> code])
    /\ UNCHANGED <<clientVars, callers, lruVars>>
    /\ UNCHANGED <<now, nextUuid, users, accounts, sessions, timerVars, nonce,
                   cookies, ipcVars, flow, inviteVars>>

GenerateInvitationCode ==
    /\ \E code \in Codes :
          /\ generateInvitationCode(code)
          /\ lastOp' = Op("generateInvitationCode", NULL, NULL, {}, 1)
    /\ UNCHANGED <<clientVars, callers, lruVars>>
    /\ UNCHANGED <<now, nextUuid, users, accounts, sessions, timerVars, nonce,
                   cookies, ipcVars, flow, inviteVars>>

\* ------------------------------------------------- web server: /auth/callback
\* A request carries the grant data of the OAuth response and the browser's
\* invite_code and sso_session cookies (optional strings).
CallbackRequests ==
    [provider : {"github"}, id : ProviderUserIds,
     invite_code : {{}} \cup {{c} : c \in Codes},
     sso_session : {{}} \cup {{c} : c \in cookies}]

\* previousSessionId: the plaintext of the sso_session cookie, if it decrypts
callbackPreviousSessionId(req) ==
    IF req.sso_session = {} THEN NULL
    ELSE LET result == decryptSessionCookie(OneOf(req.sso_session)).success
         IN  IF result = {} \/ OneOf(result).json THEN NULL
             ELSE OneOf(result).sessionId

\* the handler up to its first await: createSessionForProvider, then either
\* the reply, or the call of checkInvitationCode whose promise it awaits
callbackStart(f, req) ==
    LET userRows == createSessionForProviderRows(req.provider, req.id)
    IN  /\ flow[f].pc = "idle"
        /\ lastOp' = Op("callback", f, NULL, {}, 0)
        /\ UNCHANGED <<clientVars, callers, lruVars>>
        /\ UNCHANGED <<now, users, accounts, invites, ipcVars>>
        /\ IF userRows # {}
           THEN \E userRow \in userRows :
                  /\ createSessionForProvider(userRows, userRow)
                  /\ encryptSessionCookie(nextUuid)
                  /\ flow' = [flow EXCEPT ![f] =
                                [pc |-> "signedIn", req |-> req,
                                 sessionId |-> nextUuid, created |-> FALSE]]
                  /\ UNCHANGED inviteVars
           ELSE IF req.invite_code = {}
           THEN /\ flow' = [flow EXCEPT ![f] =
                              [pc |-> "refused", req |-> req,
                               sessionId |-> NULL, created |-> FALSE]]
                /\ UNCHANGED <<sessions, nextUuid, timerVars, nonce, cookies,
                               inviteVars>>
           ELSE /\ checkInvitationCode(OneOf(req.invite_code))
                /\ flow' = [flow EXCEPT ![f] =
                              [pc |-> "awaitCheck", req |-> req,
                               invited |-> checkInvitationCodeResult(
                                               OneOf(req.invite_code))]]
                /\ UNCHANGED <<sessions, nextUuid, timerVars, nonce, cookies>>

\* the handler after the await: createUserWithProvider, then
\* consumeInvitationCode, then the session cookie
callbackResume(f) ==
    /\ flow[f].pc = "awaitCheck"
    /\ lastOp' = Op("callback", f, NULL, {}, 0)
    /\ UNCHANGED <<clientVars, callers, lruVars>>
    /\ UNCHANGED <<now, ipcVars, inviteVars>>
    /\ LET req == flow[f].req
           previousSessionId == callbackPreviousSessionId(req)
           sessionId == createUserWithProviderSessionId(req.provider,
                                                        previousSessionId)
       IN  IF flow[f].invited
           THEN /\ createUserWithProvider(req.provider, req.id, EmailOf(req.id),
                                          previousSessionId)
                /\ consumeInvitationCode(OneOf(req.invite_code))
                /\ encryptSessionCookie(sessionId)
                /\ flow' = [flow EXCEPT ![f] =
                              [pc |-> "signedIn", req |-> req,
                               sessionId |-> sessionId, created |-> TRUE]]
           ELSE /\ flow' = [flow EXCEPT ![f] =
                              [pc |-> "refused", req |-> req,
                               sessionId |-> NULL, created |-> FALSE]]
                /\ UNCHANGED <<users, accounts, sessions, invites, nextUuid,
                               timerVars, nonce, cookies>>

\* ------------------------------------------------------------ IPC client
serverVars == <<now, nextUuid, dbVars, timerVars, nonce, cookies, ipcVars,
                flow, inviteVars, lruVars>>

\* sessionCookie ?? ''
CacheKey(sessionCookie) ==
    IF sessionCookie = {} THEN EmptyCookie ELSE OneOf(sessionCookie)

\* data.message: the reply without its correlation id
Message(data) == [k \in DOMAIN data \ {"id"} |-> data[k]]

Pending(id) == [id |-> id, status |-> "pending", value |-> [none |-> TRUE]]
Resolved(id, value) == [id |-> id, status |-> "resolved", value |-> value]
Rejected(id, message) ==
    [id |-> id, status |-> "rejected", value |-> [error |-> message]]

\* reject(new Error(message)) of the promises of the requests ids
Settle(P, ids, message) ==
    {IF q.id \in ids /\ q.status = "pending" THEN Rejected(q.id, message)
     ELSE q : q \in P}

\* checkAuthCache.delete(key) and checkAuthCache.set(key, promise)
CacheDelete(C, key) == {e \in C : e.key # key}
CacheSet(C, key, id, settled) ==
    CacheDelete(C, key) \cup {[key |-> key, id |-> id, settled |-> settled]}

\* what a call returns: the promise of request retId, or the error thrown
Call(name, sessionCookie, retId, thrown) ==
    OpOn(name, NULL, retId, {}, 0,
         [sessionCookie |-> sessionCookie, thrown |-> thrown])

checkAuthThrows_unlessDestroyed(signal) ==
    IF signal = "aborted" THEN "Request aborted"
    ELSE IF state = "destroyed" THEN "SSO client is destroyed"
    ELSE ""

\* the error checkAuth throws before it looks at the cache, "" for none
checkAuthThrows(signal) ==
    IF signal = "aborted" THEN "Request aborted"
    ELSE IF state = "destroyed" THEN "SSO client is destroyed"
    ELSE IF state # "connected" THEN "Not connected to SSO server"
    ELSE ""

\* checkAuth(sessionCookie, host, path, signal) of the client
SsoClientCheckAuth(sessionCookie, host, path, signal) ==
    LET key == CacheKey(sessionCookie)
        cached == {e \in checkAuthCache : e.key = key}
        thrown == checkAuthThrows(signal)
        id == messageId
    IN  /\ UNCHANGED serverVars
        /\ IF thrown # ""
           THEN /\ lastOp' = Call("SsoClient.checkAuth", sessionCookie, NULL, thrown)
                /\ UNCHANGED <<clientVars, callers, lruVars>>
           ELSE IF cached # {}
           THEN /\ lastOp' = Call("SsoClient.checkAuth", sessionCookie,
                                  OneOf(cached).id, "")
                /\ callers' = callers \cup
                       {[id |-> OneOf(cached).id, host |-> host, path |-> path]}
                /\ UNCHANGED <<clientVars, lruVars>>
           ELSE /\ messageId < MaxMessageId
                /\ messageId' = messageId + 1
                /\ listeners' = listeners \cup
                       {[event |-> "checkAuth", id |-> id,
                         sessionCookie |-> sessionCookie,
                         signal |-> signal = "live"]}
                /\ toServer' = toServer \cup
                       {[event |-> "checkAuth",
                         data |-> [id |-> id, shape |-> "ok",
                                   sessionCookie |-> sessionCookie,
                                   host |-> host, path |-> path]]}
                /\ promises' = promises \cup {Pending(id)}
                /\ callers' = callers \cup
                       {[id |-> id, host |-> host, path |-> path]}
                /\ checkAuthCache' = CacheSet(checkAuthCache, key, id, FALSE)
                /\ lastOp' = Call("SsoClient.checkAuth", sessionCookie, id, "")
                /\ UNCHANGED <<state, evictions, toClient>>

\* getInvitationCode() of the client
SsoClientGetInvitationCode ==
    LET id == messageId
    IN  /\ UNCHANGED serverVars
        /\ IF state = "destroyed"
           THEN /\ lastOp' = Call("SsoClient.getInvitationCode", {}, NULL,
                                  "SSO client is destroyed")
                /\ UNCHANGED <<clientVars, callers, lruVars>>
           ELSE /\ messageId < MaxMessageId
                /\ messageId' = messageId + 1
                /\ lastOp' = Call("SsoClient.getInvitationCode", {}, id, "")
                /\ IF state # "connected"
                   THEN /\ promises' = promises \cup
                               {Rejected(id, "Not connected to SSO server")}
                        /\ UNCHANGED <<listeners, toServer>>
                   ELSE /\ promises' = promises \cup {Pending(id)}
                        /\ listeners' = listeners \cup
                               {[event |-> "getInvitationCode", id |-> id,
                                 sessionCookie |-> {}, signal |-> FALSE]}
                        /\ toServer' = toServer \cup
                               {[event |-> "getInvitationCode",
                                 data |-> [id |-> id, shape |-> "ok"]]}
                /\ UNCHANGED <<state, checkAuthCache, evictions, callers,
                               toClient>>

cleanup_keepsEntry(C, h) == C

\* cleanup() of a request: clearTimeout, off(event, responseHandler), and
\* for checkAuth checkAuthCache.delete(sessionCookie ?? '')
cleanup(C, h) ==
    IF h.event = "checkAuth" THEN CacheDelete(C, CacheKey(h.sessionCookie)) ELSE C

off_everyHandler(L, h) == {x \in L : x.event # h.event}

off_nothing(L, h) == L

\* ipc.of[SERVER_ID].off(event, responseHandler) of the request h
off(L, h) == L \ {h}

\* the timeout callback of a request: 1000 ms for checkAuth, 5000 ms for
\* getInvitationCode
Timeout(h) ==
    /\ h \in listeners
    /\ listeners' = off(listeners, h)
    /\ checkAuthCache' = cleanup(checkAuthCache, h)
    /\ promises' = Settle(promises, {h.id},
               IF h.event = "checkAuth"
               THEN "Timed out waiting for authentication response"
               ELSE "Timed out waiting for invitation code")
    /\ lastOp' = Op("timeout", h.id, NULL, {}, 0)
    /\ UNCHANGED <<state, messageId, callers, evictions, toServer, toClient>>
    /\ UNCHANGED serverVars

\* onAbort of a checkAuth request that was given a signal
Abort(h) ==
    /\ h \in listeners
    /\ h.signal
    /\ listeners' = off(listeners, h)
    /\ checkAuthCache' = cleanup(checkAuthCache, h)
    /\ promises' = Settle(promises, {h.id}, "Request aborted")
    /\ lastOp' = Op("abort", h.id, NULL, {}, 0)
    /\ UNCHANGED <<state, messageId, callers, evictions, toServer, toClient>>
    /\ UNCHANGED serverVars

responseHandler_anyId(h, m) == h.event = m.event

\* responseHandler(data) of the request h acts on the message m:
\* the listener is on m's event and `data.id !== id` is false
responseHandler(h, m) == h.event = m.event /\ h.id = m.data.id

\* what responseHandler settles the promise of request h with
responseHandlerSettles(h, m) ==
    IF h.event = "checkAuth" THEN Resolved(h.id, Message(m.data))
    ELSE IF "error" \in DOMAIN m.data THEN Rejected(h.id, m.data.error)
    ELSE IF "code" \in DOMAIN m.data
         THEN Resolved(h.id, [code |-> m.data.code])
    ELSE Rejected(h.id, "Invalid response from server")

\* responseHandler of checkAuth caches an authenticated result
responseHandlerCaches(h, m) ==
    /\ h.event = "checkAuth"
    /\ Truthy(h.sessionCookie, EmptyCookie)
    /\ m.data.authenticated

\* the socket delivers the message m: every listener of its event runs
Deliver(m) ==
    LET hit == {h \in listeners : responseHandler(h, m)}
        caching == {h \in hit : responseHandlerCaches(h, m)}
        cleaned == {e \in checkAuthCache :
                       \A h \in hit : e \in cleanup(checkAuthCache, h)}
    IN  /\ m \in toClient
        /\ toClient' = toClient \ {m}
        /\ listeners' = listeners \ hit
        /\ promises' =
              {IF q.status = "pending" /\ \E h \in hit : h.id = q.id
               THEN responseHandlerSettles(
                        OneOf({h \in hit : h.id = q.id}), m)
               ELSE q : q \in promises}
        /\ checkAuthCache' =
              {e \in cleaned : \A h \in caching : e.key # CacheKey(h.sessionCookie)}
              \cup {[key |-> CacheKey(h.sessionCookie), id |-> h.id,
                     settled |-> TRUE] : h \in caching}
        /\ evictions' = evictions \cup
              {[key |-> CacheKey(h.sessionCookie), id |-> h.id] : h \in caching}
        /\ lastOp' = Op("deliver", m.data.id, NULL, hit, Cardinality(hit))
        /\ UNCHANGED <<state, messageId, callers, toServer>>
        /\ UNCHANGED serverVars

\* the timer that ends the caching of an authenticated result (5 minutes)
Evict(timer) ==
    /\ timer \in evictions
    /\ evictions' = evictions \ {timer}
    /\ checkAuthCache' = CacheDelete(checkAuthCache, timer.key)
    /\ lastOp' = Op("evict", timer.id, NULL, {}, 0)
    /\ UNCHANGED <<state, messageId, callers, listeners, promises, toServer, toClient>>
    /\ UNCHANGED serverVars

\* disconnect(): ipc.disconnect(SERVER_ID), then state = 'destroyed'
disconnect ==
    /\ state' = "destroyed"
    /\ lastOp' = Op("disconnect", NULL, NULL, {}, 0)
    /\ UNCHANGED <<messageId, callers, checkAuthCache, listeners, evictions, promises,
                   toServer, toClient>>
    /\ UNCHANGED serverVars

\* the listeners of the socket's 'connect', 'disconnect' and 'destroy'
SocketEvents == {"connect", "disconnect", "destroy"}

onSocketEvent(event) ==
    /\ state' = IF event = "connect" THEN "connected"
                ELSE IF event = "disconnect" THEN "connecting"
                ELSE "destroyed"
    /\ lastOp' = OpOn("socket", NULL, NULL, {}, 0, event)
    /\ UNCHANGED <<messageId, callers, checkAuthCache, listeners, evictions, promises,
                   toServer, toClient>>
    /\ UNCHANGED serverVars

\* ------------------------------------------- IPC server on the connection
\* the handler of 'checkAuth' when a statement of the store throws: the
\* exception leaves the handler between scheduleCleanup and the emit
checkAuthStoreFails(data) ==
    /\ checkAuthOutcome(data) \in {"noSession", "authenticated"}
    /\ request' = data
    /\ scheduleCleanup
    /\ lastOp' = Op("checkAuthStoreFails", data.id, NULL, {}, 0)
    /\ UNCHANGED <<now, nextUuid, dbVars, nonce, cookies, reply, flow,
                   inviteVars>>

\* InvitationCode.Result
InvitationCodeResult(id, code) == [id |-> id, code |-> code]
InvitationCodeError_asCode(id, message) == [id |-> id, code |-> message]

InvitationCodeError(id, message) == [id |-> id, error |-> message]

\* the handler of 'getInvitationCode'; thrown: generateInvitationCode throws
getInvitationCode(data, thrown) ==
    /\ request' = data
    /\ lastOp' = OpOn("getInvitationCode", data.id, NULL, {}, 0, thrown)
    /\ UNCHANGED <<now, nextUuid, users, accounts, sessions, timerVars, nonce,
                   cookies, flow, inviteVars>>
    /\ IF data.shape # "ok"
       THEN /\ reply' = InvitationCodeError(data.id, "Invalid request")
            /\ UNCHANGED invites
       ELSE IF thrown
       THEN /\ reply' = InvitationCodeError(data.id, "error.message")
            /\ UNCHANGED invites
       ELSE \E code \in Codes :
               /\ generateInvitationCode(code)
               /\ reply' = InvitationCodeResult(data.id, code)

\* the server takes the message m off the socket and runs its handler;
\* ipc.server.emit puts the reply on the socket
ServerCheckAuth(m) ==
    /\ m \in toServer
    /\ m.event = "checkAuth"
    /\ checkAuth(m.data)
    /\ toServer' = toServer \ {m}
    /\ toClient' = toClient \cup {[event |-> "checkAuth", data |-> reply']}
    /\ UNCHANGED <<state, messageId, callers, checkAuthCache, listeners, evictions,
                   promises, lruVars>>

ServerCheckAuthStoreFails(m) ==
    /\ m \in toServer
    /\ m.event = "checkAuth"
    /\ checkAuthStoreFails(m.data)
    /\ toServer' = toServer \ {m}
    /\ UNCHANGED <<state, messageId, callers, checkAuthCache, listeners, evictions,
                   promises, toClient, lruVars>>

ServerGetInvitationCode(m, thrown) ==
    /\ m \in toServer
    /\ m.event = "getInvitationCode"
    /\ getInvitationCode(m.data, thrown)
    /\ toServer' = toServer \ {m}
    /\ toClient' = toClient \cup {[event |-> "getInvitationCode",
                                   data |-> reply']}
    /\ UNCHANGED <<state, messageId, callers, checkAuthCache, listeners, evictions,
                   promises, lruVars>>

\* ------------------------------------------------------- specifications
\* the session manager under any sequence of its operations
Next ==
    \/ \E d \in TickDays : Tick(d)
    \/ \E sid \in 1..MaxUuid : GetSessionWithUser(sid)
    \/ \E sid \in 1..MaxUuid : RefreshSession(sid)
    \/ \E p \in Providers, u \in ProviderUserIds : CreateSessionForProvider(p, u)
    \/ \E p \in Providers, u \in ProviderUserIds, prev \in {NULL} \cup 1..MaxUuid :
          CreateUserWithProvider(p, u, EmailOf(u), prev)
    \/ Cleanup

Spec == Init /\ [][Next]_vars

\* the daemon serving checkAuth to clients that hold the cookies it issued;
\* a user is created only when no account matches, as /auth/callback does
NextIpc ==
    \/ \E d \in TickDays : Tick(d)
    \/ \E u \in ProviderUserIds : CreateSessionForProvider("github", u)
    \/ \E u \in ProviderUserIds :
          /\ createSessionForProviderRows("github", u) = {}
          /\ CreateUserWithProvider("github", u, EmailOf(u), NULL)
    \/ \E sid \in SessionIds(sessions) : EncryptSessionCookie(sid)
    \/ \E data \in CookieRequests : checkAuth(data) /\ UNCHANGED <<clientVars, callers, lruVars>>
    \/ Cleanup

SpecIpc == Init /\ [][NextIpc]_vars

\* the checkAuth handler on requests without a usable cookie
NextRedirect ==
    \E data \in NoCookieRequests : checkAuth(data) /\ UNCHANGED <<clientVars, callers, lruVars>>

SpecRedirect == Init /\ [][NextRedirect]_vars

\* sign-ups through /auth/callback: requests in flight interleave at the
\* await of checkInvitationCode
NextSignup ==
    \/ \E d \in TickDays : Tick(d)
    \/ GenerateInvitationCode
    \/ \E f \in Flows, req \in CallbackRequests : callbackStart(f, req)
    \/ \E f \in Flows : callbackResume(f)

SpecSignup == Init /\ [][NextSignup]_vars

\* what the event loop adds to the delay of a timer, in milliseconds
Latency == {0, 1}

\* the setTimeout callback of a failed checkInvitationCode: the promise
\* resolves to false once the delay has passed
ResolveCheck(latency) ==
    LET d == lastOp.input.delay + latency
    IN  /\ lastOp.op = "checkInvitationCode"
        /\ millis + d <= MaxElapsed
        /\ millis' = millis + d
        /\ elapse(d)
        /\ lastOp' = OpOn("resolve", NULL, NULL, {}, 0,
                          [code |-> lastOp.input.code,
                           result |-> lastOp.input.result,
                           delay |-> lastOp.input.delay])
        /\ UNCHANGED <<clientVars, callers, lruVars>>
        /\ UNCHANGED <<now, nextUuid, dbVars, nonce, cookies, ipcVars,
                       flow, lastAttemptTime, attemptBatchCount>>

\* a caller that awaits each check before it makes the next one
AwaitedCheckInvitationCode(code) ==
    /\ lastOp.op # "checkInvitationCode"
    /\ CheckInvitationCode(code)

\* one caller that tries codes back-to-back: each call is made when the
\* promise of the previous one resolves
NextBackToBack ==
    \/ \E code \in Codes : AwaitedCheckInvitationCode(code)
    \/ \E latency \in Latency : ResolveCheck(latency)

SpecBackToBack == Init /\ [][NextBackToBack]_vars

\* the invitation manager under any sequence of its operations, on a clock
\* of milliseconds
NextInvites ==
    \/ \E d \in MillisSteps : TickMillis(d)
    \/ GenerateInvitationCode
    \/ \E code \in Codes : CheckInvitationCode(code)
    \/ \E code \in Codes : ConsumeInvitationCode(code)

SpecInvites == Init /\ [][NextInvites]_vars

\* a cache of capacity 1 or 2 under any sequence of its calls
InitLru == \E max \in LruMaxes : InitOf(createLRUCache(max))

NextLru ==
    \/ \E key \in LruKeys : LruGet(key)
    \/ \E key \in LruKeys, value \in LruValues : LruSet(key, value)
    \/ \E key \in LruKeys : LruDestroy(key)
    \/ LruClear

SpecLru == InitLru /\ [][NextLru]_vars

\* the session manager under a clock of milliseconds: sessions are created
\* and looked up while the sweep timer runs
SweepSteps == {10000, 20000}

NextSweep ==
    \/ \E d \in SweepSteps : TickMillis(d)
    \/ \E sid \in 1..MaxUuid : GetSessionWithUser(sid)
    \/ \E u \in ProviderUserIds : CreateSessionForProvider("github", u)
    \/ \E u \in ProviderUserIds :
          /\ getUserAccountByProviderStmt(accounts, "github", u) = {}
          /\ CreateUserWithProvider("github", u, EmailOf(u), NULL)
    \/ Cleanup

SpecSweep == Init /\ [][NextSweep]_vars

\* d milliseconds pass; the clock is read up to MaxMillis and stays there
Elapse(d) ==
    /\ millis' = IF millis + d <= MaxMillis THEN millis + d ELSE MaxMillis
    /\ elapse(d)
    /\ lastOp' = Op("tick", NULL, NULL, {}, 0)
    /\ UNCHANGED <<clientVars, callers, lruVars>>
    /\ UNCHANGED <<now, nextUuid, dbVars, nonce, cookies, ipcVars,
                   flow, lastAttemptTime, attemptBatchCount>>

TimePasses == \E d \in SweepSteps : Elapse(d)

\* the session manager for as long as it runs: time never stops, and the
\* event loop runs the callback of a timer that is due
NextSweepLive ==
    \/ TimePasses
    \/ \E d \in TickDays : Tick(d)
    \/ \E sid \in 1..MaxUuid : GetSessionWithUser(sid)
    \/ \E u \in ProviderUserIds : CreateSessionForProvider("github", u)
    \/ \E u \in ProviderUserIds :
          /\ getUserAccountByProviderStmt(accounts, "github", u) = {}
          /\ CreateUserWithProvider("github", u, EmailOf(u), NULL)
    \/ Cleanup

SpecSweepLive ==
    /\ Init
    /\ [][NextSweepLive]_vars
    /\ WF_vars(TimePasses)
    /\ SF_vars(Cleanup)

\* checkAuth over session data cookies; cookies issued before the cookie
\* carried session data are still held by clients
NextData ==
    \/ \E d \in TickDays : Tick(d)
    \/ \E u \in ProviderUserIds : CreateSessionForProvider("github", u)
    \/ \E u \in ProviderUserIds :
          /\ getUserAccountByProviderStmt(accounts, "github", u) = {}
          /\ CreateUserWithProvider("github", u, EmailOf(u), NULL)
    \/ \E s \in SessionIds(sessions) : EncryptSessionCookie(s)
    \/ \E s \in SessionIds(sessions) : EncryptSessionData(s, "github")
    \/ \E data \in CookieRequests : checkAuthData(data)
    \/ Cleanup

SpecData == Init /\ [][NextData]_vars

\* A client of the daemon and a browser that is signed in: the user, the
\* account and the session that /auth/callback created, and the cookie it
\* set, whose salt and IV no later encryption draws again
IssuedCookie == encrypt(Str(3), MaxNonce)

\* a second cookie of the same session, returned by a checkAuth that
\* another application made for the browser before day 0
RefreshedCookie == encrypt(Str(3), MaxNonce + 1)

InitWith(S, C) ==
    /\ now = 0
    /\ nextUuid = 4
    /\ users = {[id |-> 1, email |-> EmailOf("p1")]}
    /\ accounts = {[id |-> 2, user_id |-> 1, provider |-> "github",
                    provider_user_id |-> "p1"]}
    /\ sessions = S
    /\ invites = {}
    /\ timeoutId = 1
    /\ timers = {[id |-> 1, remaining |-> CLEANUP_DELAY_MS]}
    /\ sweepAge = NULL
    /\ nonce = 0
    /\ cookies = C
    /\ request = NoRequest
    /\ reply = NoMessage
    /\ flow = [f \in Flows |-> [pc |-> "idle"]]
    /\ millis = 0
    /\ lastAttemptTime = Epoch
    /\ lru = createLRUCache(SESSION_STORE_MAX)
    /\ lruRef = <<>>
    /\ attemptBatchCount = 0
    /\ lastOp = Op("init", NULL, NULL, {}, 0)
    /\ state = "connecting"
    /\ messageId = 0
    /\ checkAuthCache = {}
    /\ listeners = {}
    /\ evictions = {}
    /\ promises = {}
    /\ callers = {}
    /\ toServer = {}
    /\ toClient = {}

InitSignedIn == InitWith(createSession({}, 1, 2, 3, 0), {IssuedCookie})

\* the browser signed in ten days ago and the session was refreshed five
\* days ago
InitRefreshed ==
    InitWith(refreshSessionStmt(createSession({}, 1, 2, 3, -10), 3, -5),
             {IssuedCookie, RefreshedCookie})

\* the cookies a caller of the client presents: none, or one of the browser's
ClientCookies == {{}, {IssuedCookie}, {RefreshedCookie}}
\* the AbortSignal of a call: not yet aborted, or aborted before the call
Signals == {"live", "aborted"}
AppHost == <<"app", "example", "com">>
AppPath == {"/dashboard"}

\* one client of a signed-in user and the server, over a connection that
\* comes and goes
NextClient ==
    \/ \E sessionCookie \in {{}, {IssuedCookie}} :
          SsoClientCheckAuth(sessionCookie, AppHost, AppPath, "none")
    \/ SsoClientGetInvitationCode
    \/ disconnect
    \/ \E event \in SocketEvents : onSocketEvent(event)
    \/ \E h \in listeners : Timeout(h)
    \/ \E m \in toClient : Deliver(m)
    \/ \E timer \in evictions : Evict(timer)
    \/ \E m \in toServer : ServerCheckAuth(m)
    \/ \E m \in toServer : ServerGetInvitationCode(m, FALSE)

SpecClient == InitSignedIn /\ [][NextClient]_vars

\* checkAuth calls of one client with the cookies of the browser, each with
\* an abort signal
NextCache ==
    \/ \E sessionCookie \in ClientCookies, signal \in Signals :
          SsoClientCheckAuth(sessionCookie, AppHost, AppPath, signal)
    \/ \E event \in {"connect", "disconnect"} : onSocketEvent(event)
    \/ \E h \in listeners : Timeout(h)
    \/ \E h \in listeners : Abort(h)
    \/ \E m \in toClient : Deliver(m)
    \/ \E timer \in evictions : Evict(timer)
    \/ \E m \in toServer : ServerCheckAuth(m)

SpecCache == InitRefreshed /\ [][NextCache]_vars

\* the applications behind one client: each passes its own host and path
Apps == {[host |-> AppHost, path |-> AppPath],
         [host |-> AppHost, path |-> {"/settings"}],
         [host |-> <<"admin", "example", "com">>, path |-> AppPath]}

\* checkAuth calls of one client from several applications, with no cookie
\* and with the cookie of the session
NextCoalesce ==
    \/ \E sessionCookie \in {{}, {IssuedCookie}}, app \in Apps :
          SsoClientCheckAuth(sessionCookie, app.host, app.path, "none")
    \/ onSocketEvent("connect")
    \/ \E h \in listeners : Timeout(h)
    \/ \E m \in toClient : Deliver(m)
    \/ \E m \in toServer : ServerCheckAuth(m)

SpecCoalesce == InitSignedIn /\ [][NextCoalesce]_vars

\* a client of a signed-in user while the user signs in again from another
\* browser: the new session replaces the one the cookie stands for
NextRevoke ==
    \/ \E sessionCookie \in {{}, {IssuedCookie}} :
          SsoClientCheckAuth(sessionCookie, AppHost, AppPath, "none")
    \/ onSocketEvent("connect")
    \/ \E h \in listeners : Timeout(h)
    \/ \E m \in toClient : Deliver(m)
    \/ \E timer \in evictions : Evict(timer)
    \/ \E m \in toServer : ServerCheckAuth(m)
    \/ CreateSessionForProvider("github", "p1")

SpecRevoke == InitSignedIn /\ [][NextRevoke]_vars

\* checkAuth calls of visitors without a cookie, from several applications,
\* each call with an abort signal of its own
NextAbort ==
    \/ \E app \in Apps : SsoClientCheckAuth({}, app.host, app.path, "live")
    \/ onSocketEvent("connect")
    \/ \E h \in listeners : Abort(h)
    \/ \E m \in toClient : Deliver(m)
    \/ \E m \in toServer : ServerCheckAuth(m)

SpecAbort == InitSignedIn /\ [][NextAbort]_vars

\* the timeout callback of the request id
TimeoutOf(id) == \E h \in listeners : h.id = id /\ Timeout(h)

\* one client whose connection drops, returns and is closed while requests
\* are in flight; the replies of the server may arrive or not
NextSettle ==
    \/ SsoClientCheckAuth({}, AppHost, AppPath, "none")
    \/ SsoClientGetInvitationCode
    \/ disconnect
    \/ \E event \in {"connect", "disconnect"} : onSocketEvent(event)
    \/ \E id \in 0..(MaxMessageId - 1) : TimeoutOf(id)
    \/ \E m \in toClient : Deliver(m)
    \/ \E m \in toServer : ServerCheckAuth(m)
    \/ \E m \in toServer : ServerGetInvitationCode(m, FALSE)

\* a timer that was set and not cleared fires: the event loop runs the
\* callback of every armed timeout
SpecSettle ==
    /\ InitSignedIn
    /\ [][NextSettle]_vars
    /\ \A id \in 0..(MaxMessageId - 1) : WF_vars(TimeoutOf(id))

\* a server whose store and invitation manager may throw
NextFaults ==
    \/ \E sessionCookie \in {{}, {IssuedCookie}} :
          SsoClientCheckAuth(sessionCookie, AppHost, AppPath, "none")
    \/ SsoClientGetInvitationCode
    \/ onSocketEvent("connect")
    \/ \E h \in listeners : Timeout(h)
    \/ \E m \in toClient : Deliver(m)
    \/ \E m \in toServer : ServerCheckAuth(m)
    \/ \E m \in toServer : ServerCheckAuthStoreFails(m)
    \/ \E m \in toServer, thrown \in BOOLEAN : ServerGetInvitationCode(m, thrown)

SpecFaults == InitSignedIn /\ [][NextFaults]_vars

\* ------------------------------------------------------------ properties
\* C1: every user has at most one session row, and once a session has been
\* created for a user, every session id that was valid for that user before
\* fails getSessionWithUser.
C1_OneSessionPerUser ==
    /\ [](\A u \in users : Cardinality(SessionsOfUser(sessions, u.id)) <= 1)
    /\ [][\A old \in sessions :
            (/\ old.expires_at > now
             /\ \E new \in sessions' : /\ new.id \notin SessionIds(sessions)
                                       /\ new.user_id = old.user_id)
            => ~(\E s \in sessions' : s.id = old.id /\ s.expires_at > now')]_vars

C1_Witness ==
    /\ lastOp.op = "createSessionForProvider"
    /\ \E old \in lastOp.rows : old.expires_at > now
    /\ Cardinality(SessionsOfUser(sessions, lastOp.arg)) = 1

\* C9: getSessionWithUser(id) returns the row exactly when a row with that
\* id exists and its expires_at is later than now, null otherwise, and
\* changes no session.
C9_GetSessionReadsOnly ==
    [][lastOp'.op = "getSessionWithUser" =>
         /\ sessions' = sessions
         /\ lastOp'.rows =
              {s \in sessions : s.id = lastOp'.arg /\ ~(s.expires_at <= now)}
         /\ Cardinality(lastOp'.rows) <= 1]_vars

C9_Witness ==
    /\ lastOp.op = "getSessionWithUser"
    /\ lastOp.rows = {}
    /\ \E s \in sessions : s.id = lastOp.arg /\ s.expires_at = now

\* C10: refreshSession on a live session sets expires_at to now + window and
\* changes no other row; a further call at the same time changes nothing.
C10_RefreshIdempotent ==
    [][(/\ lastOp'.op = "refreshSession"
        /\ \E s \in sessions : s.id = lastOp'.arg /\ s.expires_at > now)
       =>
       /\ \A s \in sessions :
            IF s.id = lastOp'.arg
            THEN [s EXCEPT !.expires_at = now + 50] \in sessions'
            ELSE s \in sessions'
       /\ Cardinality(sessions') = Cardinality(sessions)
       /\ (lastOp.op = "refreshSession" /\ lastOp.arg = lastOp'.arg)
             => sessions' = sessions]_vars

C10_Witness ==
    /\ lastOp.op = "refreshSession"
    /\ lastOp.changes = 1
    /\ \E s \in sessions : s.id = lastOp.arg /\ s.expires_at = now + 50
    /\ \E s \in sessions : s.id # lastOp.arg /\ s.expires_at # now + 50
    /\ now > 0

\* the session a cookie names: the id its plaintext carries
CookieSessionId(req) ==
    IF req.shape = "ok" /\ req.sessionCookie # {}
       /\ decrypt(OneOf(req.sessionCookie)).success # {}
       /\ ~OneOf(decrypt(OneOf(req.sessionCookie)).success).json
    THEN OneOf(decrypt(OneOf(req.sessionCookie)).success).sessionId
    ELSE NULL

\* C2: a checkAuth whose cookie decrypts to the id of a stored, unexpired
\* session is answered authenticated:true with the session owner's user id
\* and a fresh cookie that differs from the presented one and decrypts to
\* the same session id.
C2_ValidCookieAuthenticated ==
    [][\A s \in sessions :
         (/\ lastOp'.op = "checkAuth"
          /\ CookieSessionId(request') = s.id
          /\ s.expires_at > now)
         =>
         /\ reply'.id = request'.id
         /\ reply'.authenticated
         /\ reply'.user_id = s.user_id
         /\ reply'.cookie # OneOf(request'.sessionCookie)
         /\ reply'.cookie \notin cookies
         /\ decryptSessionCookie(reply'.cookie).success = {Str(s.id)}]_vars

C2_Witness ==
    /\ lastOp.op = "checkAuth"
    /\ reply.authenticated
    /\ CookieSessionId(request) # NULL
    /\ reply.cookie # OneOf(request.sessionCookie)
    /\ \E s \in sessions : /\ s.id = CookieSessionId(request)
                           /\ s.user_id = reply.user_id
                           /\ s.user_id # s.id
    /\ Cardinality(users) = 2

\* C3: a checkAuth whose cookie decrypts to a session id that is unknown or
\* expired is answered authenticated:false with a redirect, and no session
\* row changes.
C3_NoSessionRedirects ==
    [][(/\ lastOp'.op = "checkAuth"
        /\ CookieSessionId(request') # NULL
        /\ ~(\E s \in sessions : /\ s.id = CookieSessionId(request')
                                 /\ s.expires_at > now))
       =>
       /\ reply' = Unauthenticated(request'.id,
                                   buildRedirect(request'.host, request'.path))
       /\ sessions' = sessions]_vars

\* an expired row that the sweep has not deleted yet, left as it was
C3_Witness ==
    /\ lastOp.op = "checkAuth"
    /\ ~reply.authenticated
    /\ \E s \in sessions : /\ s.id = CookieSessionId(request)
                           /\ s.expires_at = now

\* a session deleted by a later sign-in of the same user
C3_WitnessUnknown ==
    /\ lastOp.op = "checkAuth"
    /\ ~reply.authenticated
    /\ CookieSessionId(request) # NULL
    /\ CookieSessionId(request) \notin SessionIds(sessions)

\* C6: whenever checkAuth answers authenticated:true for a session, that
\* session's expires_at afterwards equals now plus the sliding window and is
\* never earlier than its value before the call.
C6_ExpiryMovesForward ==
    [][\A s \in sessions :
         (/\ lastOp'.op = "checkAuth"
          /\ reply'.authenticated
          /\ CookieSessionId(request') = s.id)
         =>
         \E r \in sessions' : /\ r.id = s.id
                              /\ r.expires_at = now + 50
                              /\ r.expires_at >= s.expires_at]_vars

\* C4 as stated: a checkAuth without a session cookie is answered
\* authenticated:false with a redirect that carries the request's host and
\* path.
C4_RedirectCarriesRequestHost ==
    (/\ lastOp.op = "checkAuth"
     /\ request.shape = "ok"
     /\ request.sessionCookie \in {{}, {EmptyCookie}})
    =>
    /\ reply.id = request.id
    /\ ~reply.authenticated
    /\ request.host # <<>> => reply.redirect.host = request.host
    /\ request.path \notin {{}, {""}} => reply.redirect.path = request.path

\* a host string whose host name is below the base domain: some labels,
\* then "example.com", then at most what follows a host name
BelowBaseDomain(host) ==
    \E k \in 1..(Len(host) - 2) :
        /\ host[k + 1] = "example"
        /\ host[k + 2] = "com"
        /\ \A i \in 1..k : host[i] # "/x"
        /\ \A i \in (k + 3)..Len(host) : host[i] = "/x"

\* C4, amended: the redirect carries the request's host when that host is
\* below the base domain and the base domain otherwise, and the request's
\* path when it is not empty.
C4_RedirectCarriesValidatedHost ==
    (/\ lastOp.op = "checkAuth"
     /\ request.shape = "ok"
     /\ request.sessionCookie \in {{}, {EmptyCookie}})
    =>
    /\ reply.id = request.id
    /\ ~reply.authenticated
    /\ reply.redirect.origin = <<"sso", "example", "com">>
    /\ reply.redirect.host = IF BelowBaseDomain(request.host)
                             THEN request.host
                             ELSE <<"example", "com">>
    /\ reply.redirect.path = IF request.path \in {{}, {""}}
                             THEN {}
                             ELSE request.path

C4_Witness ==
    /\ lastOp.op = "checkAuth"
    /\ request.shape = "ok"
    /\ request.sessionCookie = {}
    /\ request.host = <<"evil", "com">>
    /\ request.path = {"/dashboard"}
    /\ reply.redirect.host = <<"example", "com">>
    /\ reply.redirect.path = {"/dashboard"}

\* C7: no two account rows share the same (provider, provider_user_id).
C7_ProviderIdentityUnique ==
    \A a, b \in accounts :
        (a.provider = b.provider /\ a.provider_user_id = b.provider_user_id)
        => a = b

\* C8: each invitation code completes at most one sign-up: of the requests
\* that presented the same code, at most one creates a user or an account.
C8_CodeUsedOnce ==
    \A f, g \in Flows :
        (/\ flow[f].pc = "signedIn" /\ flow[f].created
         /\ flow[g].pc = "signedIn" /\ flow[g].created
         /\ flow[f].req.invite_code = flow[g].req.invite_code)
        => f = g

\* C5: for the same host and path, the reply to a checkAuth whose cookie
\* fails decryption or validation is the reply to a checkAuth whose cookie
\* is well-formed but names an expired or unknown session.
C5_FailureIndistinguishable ==
    [][(/\ lastOp.op = "checkAuthData"
        /\ lastOp'.op = "checkAuthData"
        /\ request.host = request'.host
        /\ request.path = request'.path
        /\ decryptSessionData(OneOf(request.sessionCookie)) = {}
        /\ checkAuthDataOutcome(request') \in {"expired", "noSession"})
       => (/\ reply'.authenticated = reply.authenticated
           /\ reply'.redirect = reply.redirect)]_vars

\* C12: createSessionForProvider returns null and changes no user, account
\* or session row when no account matches the provider identity; when one
\* matches it returns the id of a new session that getSessionWithUser
\* finds valid and that belongs to a matching account and to its owner.
C12_CreateSessionForProvider ==
    [][lastOp'.op = "createSessionForProvider" =>
       LET matching == {a \in accounts :
                           /\ a.provider = lastOp'.input[1]
                           /\ a.provider_user_id = lastOp'.input[2]}
           returned == {s \in sessions' : s.id = lastOp'.retId}
       IN  IF matching = {}
           THEN /\ lastOp'.retId = NULL
                /\ UNCHANGED <<users, accounts, sessions>>
           ELSE /\ lastOp'.retId \notin {s.id : s \in sessions}
                /\ Cardinality(returned) = 1
                /\ UNCHANGED <<users, accounts>>
                /\ \A s \in returned :
                      /\ s.expires_at > now'
                      /\ \E a \in matching :
                            s.account_id = a.id /\ s.user_id = a.user_id]_vars

C12_Witness ==
    /\ lastOp.op = "createSessionForProvider"
    /\ lastOp.retId # NULL
    /\ lastOp.changes = 1
    /\ \E s \in sessions : s.id = lastOp.retId /\ s.user_id = lastOp.arg

C12_WitnessNull ==
    /\ lastOp.op = "createSessionForProvider"
    /\ lastOp.retId = NULL
    /\ accounts # {}
    /\ sessions # {}

\* C13: createUserWithProvider creates a user row exactly when
\* previousSessionId is absent or names no stored, unexpired session;
\* otherwise it creates no user row and the session it returns belongs to
\* the previous session's user.
C13_UserCreatedUnlessLinked ==
    [][lastOp'.op = "createUserWithProvider" =>
       LET previous == {s \in sessions :
                           /\ lastOp'.arg # NULL
                           /\ s.id = lastOp'.arg
                           /\ s.expires_at > now}
           returned == {s \in sessions' : s.id = lastOp'.retId}
       IN  /\ Cardinality(returned) = 1
           /\ IF previous = {}
              THEN /\ users \subseteq users'
                   /\ Cardinality(users') = Cardinality(users) + 1
                   /\ \A s \in returned :
                         s.user_id \in {u.id : u \in users' \ users}
              ELSE /\ users' = users
                   /\ \A s \in returned, q \in previous :
                         s.user_id = q.user_id]_vars

C13_Witness ==
    /\ lastOp.op = "createUserWithProvider"
    /\ lastOp.rows # {}
    /\ Cardinality(users) = 1
    /\ Cardinality(accounts) = 2

C13_WitnessExpired ==
    /\ lastOp.op = "createUserWithProvider"
    /\ lastOp.arg # NULL
    /\ lastOp.rows = {}
    /\ \E s \in sessions : s.id = lastOp.arg
    /\ Cardinality(users) = 2

\* C14: within one client the correlation ids given to requests strictly
\* increase, so no two requests share an id, and a reply settles only the
\* pending request whose id is the reply's id.
C14_ReplySettlesOwnRequest ==
    /\ [](\A p, q \in promises : p.id = q.id => p = q)
    /\ [](\A p \in promises : p.id < messageId)
    /\ [][\A q \in promises' :
            (\A p \in promises : p.id # q.id)
            => /\ q.id = messageId
               /\ messageId' > messageId
               /\ \A p \in promises : p.id < q.id]_vars
    /\ [][lastOp'.op = "deliver"
          => \A p \in promises :
                (p.status = "pending" /\ p \notin promises')
                => p.id = lastOp'.arg]_vars

C14_Witness ==
    /\ lastOp.op = "deliver"
    /\ \E p \in promises : p.id = lastOp.arg /\ p.status = "resolved"
    /\ \E h \in listeners, h0 \in lastOp.rows :
          /\ h.id # lastOp.arg
          /\ h.event = h0.event
          /\ Pending(h.id) \in promises

C17_FailFastWhenNotConnected ==
    [][(/\ lastOp'.op \in {"SsoClient.checkAuth", "SsoClient.getInvitationCode"}
        /\ state # "connected")
       => /\ UNCHANGED <<toServer, toClient, listeners, evictions,
                         checkAuthCache, state>>
          /\ \/ /\ lastOp'.input.thrown # ""
                /\ lastOp'.retId = NULL
                /\ UNCHANGED promises
             \/ /\ lastOp'.retId # NULL
                /\ promises' = promises \cup
                      {Rejected(lastOp'.retId, "Not connected to SSO server")}
                /\ Pending(lastOp'.retId) \notin promises']_vars

\* a call on a destroyed client throws
C17_Witness ==
    /\ lastOp.op = "SsoClient.checkAuth"
    /\ state = "destroyed"
    /\ lastOp.input.thrown = "SSO client is destroyed"
    /\ listeners # {}

\* getInvitationCode before the connection is up returns a rejected promise
C17_WitnessNotConnected ==
    /\ lastOp.op = "SsoClient.getInvitationCode"
    /\ state = "connecting"
    /\ Rejected(lastOp.retId, "Not connected to SSO server") \in promises

\* C16: the connection state "destroyed" is entered only by disconnect(),
\* and once the state is "destroyed" no connect, disconnect or destroy event
\* of the socket moves it to another state.
C16_DestroyedTerminal ==
    /\ [][(state # "destroyed" /\ state' = "destroyed")
          => lastOp'.op = "disconnect"]_vars
    /\ [][state = "destroyed" => state' = "destroyed"]_vars

\* C18 as stated: while a checkAuth request for a cookie value is
\* outstanding, every further checkAuth call with the identical cookie value
\* sends no new message and receives the result of the outstanding request.
C18_EveryCallCoalesced ==
    [][lastOp'.op = "SsoClient.checkAuth"
       => \A h \in listeners :
             (h.event = "checkAuth" /\ h.sessionCookie = lastOp'.input.sessionCookie)
             => /\ toServer' = toServer
                /\ lastOp'.retId = h.id]_vars

\* C18, amended: while a checkAuth request for a cookie value is outstanding,
\* a further checkAuth call with the identical cookie value sends no new
\* message, and unless it throws (the client is not connected, or the call's
\* signal is already aborted) it returns the promise of the outstanding
\* request. The cache holds the request under its cookie exactly while it is
\* outstanding; when the request settles the entry is removed, except that an
\* authenticated reply for a non-empty cookie leaves its result under the
\* cookie until the timer of the reply removes it.
C18_Coalesced ==
    /\ [][lastOp'.op = "SsoClient.checkAuth"
          => \A h \in listeners :
                (h.event = "checkAuth"
                 /\ h.sessionCookie = lastOp'.input.sessionCookie)
                => /\ UNCHANGED <<toServer, listeners, messageId, promises>>
                   /\ lastOp'.input.thrown = "" => lastOp'.retId = h.id
                   /\ state = "connected"
                      => lastOp'.input.thrown \in {"", "Request aborted"}]_vars
    /\ [](\A h \in listeners :
             h.event = "checkAuth"
             => /\ Pending(h.id) \in promises
                /\ [key |-> CacheKey(h.sessionCookie), id |-> h.id,
                    settled |-> FALSE] \in checkAuthCache)
    /\ [](\A e \in checkAuthCache :
             IF e.settled
             THEN /\ [key |-> e.key, id |-> e.id] \in evictions
                  /\ e.key # EmptyCookie
                  /\ \E p \in promises : /\ p.id = e.id
                                         /\ p.status = "resolved"
                                         /\ p.value.authenticated
             ELSE \E h \in listeners : /\ h.event = "checkAuth"
                                       /\ h.id = e.id
                                       /\ CacheKey(h.sessionCookie) = e.key)
    /\ [][lastOp'.op = "evict"
          => \A e \in checkAuthCache' : e.id # lastOp'.arg]_vars

\* a call is answered with the promise of a request the server already took
C18_Witness ==
    /\ lastOp.op = "SsoClient.checkAuth"
    /\ lastOp.input.thrown = ""
    /\ lastOp.input.sessionCookie # {}
    /\ Pending(lastOp.retId) \in promises
    /\ \A m \in toServer : m.data.id # lastOp.retId
    /\ \E h \in listeners : h.id = lastOp.retId

\* the result of an authenticated reply has left the cache after its timer
C18_WitnessEvicted ==
    /\ lastOp.op = "evict"
    /\ checkAuthCache = {}
    /\ \E p \in promises : p.id = lastOp.arg /\ p.status = "resolved"

\* the session a cookie stands for, NULL for none
SessionOf(sessionCookie) ==
    IF sessionCookie = {} THEN NULL
    ELSE checkAuthSessionId([sessionCookie |-> sessionCookie])

C19_ThrownErrorIsReplied ==
    /\ [][(lastOp'.op = "getInvitationCode" /\ lastOp'.input)
          => \E m \in toServer :
                /\ m.event = "getInvitationCode"
                /\ m.data.id = lastOp'.arg
                /\ toServer' = toServer \ {m}
                /\ \E r \in toClient' :
                      /\ toClient' = toClient \cup {r}
                      /\ r \notin toClient
                      /\ r.event = "getInvitationCode"
                      /\ r.data.id = m.data.id
                      /\ DOMAIN r.data = {"id", "error"}
                      /\ r.data.error = "error.message"
                /\ UNCHANGED <<invites, sessions, users, accounts>>]_vars
    /\ [][\A r \in toClient :
            (/\ lastOp'.op = "deliver"
             /\ r \notin toClient'
             /\ r.event = "getInvitationCode"
             /\ "error" \in DOMAIN r.data
             /\ Pending(r.data.id) \in promises)
            => Rejected(r.data.id, r.data.error) \in promises']_vars

\* after a request failed with a thrown error, a later request on the same
\* connection has been answered with a code
C19_Witness ==
    /\ lastOp.op = "getInvitationCode"
    /\ ~lastOp.input
    /\ "code" \in DOMAIN reply
    /\ \E p \in promises :
          /\ p.id < reply.id
          /\ p = Rejected(p.id, "error.message")

\* C20: when the store fails while the server handles a checkAuth request,
\* the server emits a reply with the id of the request that carries a tagged
\* error, and keeps the other requests it has received.
C20_StoreFailureIsReplied ==
    [][lastOp'.op = "checkAuthStoreFails"
       => /\ \E r \in toClient' \ toClient :
                /\ r.event = "checkAuth"
                /\ r.data.id = lastOp'.arg
                /\ "error" \in DOMAIN r.data
          /\ \A m \in toServer : m.data.id # lastOp'.arg => m \in toServer']_vars

\* C21: generateInvitationCode never returns a code that is in the invites
\* table at the moment of the call: every call adds one row, whose code no
\* row held before and whose expiry is 30 days after the call, so no two
\* rows of the table share a code.
C21_FreshInvitationCode ==
    /\ [][lastOp'.op = "generateInvitationCode"
          => \E code \in Codes \ InviteCodes(invites) :
                invites' = invites \cup
                    {[code |-> code, expires_at |-> now + INVITE_DAYS]}]_vars
    /\ [](\A i, j \in invites : i.code = j.code => i = j)

\* two invocations in a row have stored two distinct codes
C21_Witness ==
    /\ lastOp.op = "generateInvitationCode"
    /\ Cardinality(InviteCodes(invites)) = 2
    /\ \A i \in invites : i.expires_at = now + INVITE_DAYS

\* C22: consumeInvitationCode(c) deletes the rows of code c and no other
\* row, so that checkInvitationCode(c) resolves to false from then on until
\* generateInvitationCode issues c again; consuming a code that has no row
\* changes nothing and raises no error.
C22_ConsumeIdempotent ==
    /\ [][lastOp'.op = "consumeInvitationCode"
          => LET c == lastOp'.input.code
             IN  /\ invites' = {i \in invites : i.code # c}
                 /\ getInviteStmt(invites', c, now') = {}
                 /\ c \notin InviteCodes(invites)
                    => invites' = invites /\ lastOp'.changes = 0]_vars
    /\ [][\A c \in Codes :
            (c \notin InviteCodes(invites) /\ c \in InviteCodes(invites'))
            => lastOp'.op = "generateInvitationCode"]_vars
    /\ [][(/\ lastOp'.op = "checkInvitationCode"
           /\ lastOp'.input.code \notin InviteCodes(invites))
          => ~lastOp'.input.result]_vars

\* a code is consumed and the other invite stays
C22_Witness ==
    /\ lastOp.op = "consumeInvitationCode"
    /\ lastOp.changes = 1
    /\ Cardinality(invites) = 1

\* consuming a code that has no row is a no-op
C22_WitnessAgain ==
    /\ lastOp.op = "consumeInvitationCode"
    /\ lastOp.changes = 0
    /\ Cardinality(invites) = 1

\* a code that has no row is checked while the other invite is stored: false
C22_WitnessRecheck ==
    /\ lastOp.op = "checkInvitationCode"
    /\ ~lastOp.input.result
    /\ lastOp.input.code = "apple crane delta"
    /\ InviteCodes(invites) = {"frost lemon river"}

\* C23: a failed checkInvitationCode that comes less than 60 s after the
\* previous failure is the (k+1)-th of its run when that one was the k-th,
\* and the k-th failure of a run is delayed by min(k^2 x 500 ms, 60 000 ms):
\* more than the failure before it until the cap is reached, never less,
\* never above the cap.
C23_ThrottleDelay ==
    [][(lastOp'.op = "checkInvitationCode" /\ ~lastOp'.input.result)
       => LET inRun == /\ lastAttemptTime.day = now
                       /\ millis - lastAttemptTime.ms < 60000
              k == attemptBatchCount'
              previous == IF attemptBatchCount * attemptBatchCount * 500 < 60000
                          THEN attemptBatchCount * attemptBatchCount * 500
                          ELSE 60000
              delay == lastOp'.input.delay
          IN  /\ inRun => k = attemptBatchCount + 1
              /\ delay = IF k * k * 500 < 60000 THEN k * k * 500 ELSE 60000
              /\ delay <= 60000
              /\ (inRun /\ attemptBatchCount >= 1)
                 => /\ delay >= previous
                    /\ previous < 60000 => delay > previous]_vars

\* the eleventh failure of a run, 59 999 ms after the run began, is the
\* first that is delayed by the cap
C23_Witness ==
    /\ lastOp.op = "checkInvitationCode"
    /\ ~lastOp.input.result
    /\ attemptBatchCount = 11
    /\ lastOp.input.delay = 60000
    /\ millis = 59999

\* the tenth failure of a run is delayed by 50 s
C23_WitnessBelowCap ==
    /\ lastOp.op = "checkInvitationCode"
    /\ attemptBatchCount = 10
    /\ lastOp.input.delay = 50000

\* C24: the first failed checkInvitationCode made 60 s or more after the
\* previous failure starts a new run: the counter is 1 after it and its
\* delay is the base delay of 500 ms, whatever the counter was.
C24_CounterResets ==
    [][(/\ lastOp'.op = "checkInvitationCode"
        /\ ~lastOp'.input.result
        /\ \/ lastAttemptTime.day # now
           \/ millis - lastAttemptTime.ms >= 60000)
       => /\ attemptBatchCount' = 1
          /\ lastOp'.input.delay = 500
          /\ lastAttemptTime' = [day |-> now, ms |-> millis]]_vars

\* a failure exactly 60 000 ms after the second failure of a run
C24_Witness ==
    /\ lastOp.op = "checkInvitationCode"
    /\ ~lastOp.input.result
    /\ lastOp.input.before = <<[day |-> 0, ms |-> 0], 2>>
    /\ millis = 60000
    /\ attemptBatchCount = 1
    /\ lastOp.input.delay = 500

\* a failure 59 999 ms after the second failure of a run goes on with the run
C24_WitnessWithin ==
    /\ lastOp.op = "checkInvitationCode"
    /\ lastOp.input.before = <<[day |-> 0, ms |-> 0], 2>>
    /\ millis = 59999
    /\ attemptBatchCount = 3

\* C25: a successful checkInvitationCode is delayed by 1 s whatever the
\* number of failures before it, and leaves the failure counter, the time of
\* the last failure and the invites table as they were.
C25_SuccessDelayFixed ==
    [][(lastOp'.op = "checkInvitationCode" /\ lastOp'.input.result)
       => /\ lastOp'.input.delay = 1000
          /\ UNCHANGED <<attemptBatchCount, lastAttemptTime, invites>>]_vars

\* a successful check in the middle of a run of failures
C25_Witness ==
    /\ lastOp.op = "checkInvitationCode"
    /\ lastOp.input.result
    /\ lastOp.input.delay = 1000
    /\ attemptBatchCount = 3
    /\ lastAttemptTime = [day |-> now, ms |-> millis]

\* C26: for every capacity max >= 1, after any sequence of get, set, destroy
\* and clear the cache holds at most max entries.
C26_AtMostMaxEntries == Cardinality(lru.cache) <= lru.max

\* C27: after any sequence of get, set, destroy and clear, the keys of the
\* cache and their values are those of a reference LRU map of the same
\* capacity in which get and set promote the key to most recently used.
C27_RefinesReferenceLru == entries(lru) = refEntries(lruRef)

C28_WitnessAfterHost ==
    /\ lastOp.op = "checkAuth"
    /\ request.host = <<"app", "example", "com", "/x">>
    /\ reply.redirect.host = request.host

SessionTouch ==
    \/ lastOp'.op = "getSessionWithUser"
    \/ SessionIds(sessions') \ SessionIds(sessions) # {}

\* C30: at every moment at most one sweep timer is pending; a session touch
\* leaves exactly one timer, the one it has just set, with the whole delay
\* to run; and the sweep runs no sooner than CLEANUP_DELAY_MS after the
\* sweep before it.
C30_SingleSweepTimer ==
    [][/\ Cardinality(timers) <= 1
       /\ Cardinality(timers') <= 1
       /\ SessionTouch
          => timers' = {[id |-> timeoutId', remaining |-> CLEANUP_DELAY_MS]}
       /\ (lastOp'.op = "cleanup" /\ timers' # timers)
          => sweepAge \in {NULL, CLEANUP_DELAY_MS}]_vars

\* a lookup found a session while the timer that the session's creation had
\* set was still pending (no sweep has run yet), 20 seconds into its delay:
\* one timer is pending, with the whole delay to run
C30_Witness ==
    /\ lastOp.op = "getSessionWithUser"
    /\ lastOp.rows # {}
    /\ sweepAge = NULL
    /\ millis = 20000
    /\ timers = {[id |-> timeoutId, remaining |-> CLEANUP_DELAY_MS]}

\* the sweep has just run, a minute or more after the start: no timer is
\* pending
C30_WitnessSweep ==
    /\ lastOp.op = "cleanup"
    /\ timers = {}
    /\ timeoutId = NULL
    /\ millis >= 2 * CLEANUP_DELAY_MS

\* C31: a run of the expiry sweep, wherever it falls among the checkAuth
\* requests, the session creations and the refreshes, deletes exactly the
\* sessions whose expires_at is not later than now: a row is kept, as it
\* was, if and only if getSessionWithUser would return it.
C31_SweepDeletesExactlyExpired ==
    [][(lastOp'.op = "cleanup" /\ timers' # timers)
       => /\ sessions' \subseteq sessions
          /\ \A s \in sessions :
                /\ s \in sessions' <=> getSessionStmt(sessions, s.id, now) # {}
                /\ s \notin sessions' <=> s.expires_at <= now]_vars

\* the sweep has run on the day a session expired: it deleted a session
\* and kept another, which is still valid
C31_Witness ==
    /\ lastOp.op = "cleanup"
    /\ lastOp.changes > 0
    /\ sessions # {}
    /\ \E s \in sessions : s.expires_at > now

\* the sweep has run on the very day a session's expires_at names
C31_WitnessBoundary ==
    /\ lastOp.op = "cleanup"
    /\ lastOp.changes > 0
    /\ now = SESSION_COOKIE_MAX_AGE_DAYS

\* C32: once a sweep has been scheduled the sweep eventually runs, however
\* often sessions are touched, and then no session that has expired is left.
C32_SweepEventuallyRuns ==
    (timers # {})
        ~> (/\ timers = {}
            /\ lastOp.op = "cleanup"
            /\ \A s \in sessions : s.expires_at > now)

\* C33: every checkAuth caller whose promise resolves to authenticated:false
\* receives the redirect built from the host and the path of its own call,
\* also when its call was answered from the client's cache of calls in
\* flight.
C33_RedirectFromOwnHostAndPath ==
    \A c \in callers, p \in promises :
        (p.id = c.id /\ p.status = "resolved" /\ ~p.value.authenticated)
        => p.value.redirect = buildRedirect(c.host, c.path)

\* C34: once a session has been deleted at the daemon, a checkAuth call
\* made on the client with a cookie of that session is never returned a
\* promise that is resolved to authenticated:true.
C34_NoAuthAfterDeletion ==
    [][(/\ lastOp'.op = "SsoClient.checkAuth"
        /\ lastOp'.input.thrown = ""
        /\ lastOp'.input.sessionCookie # {}
        /\ SessionOf(lastOp'.input.sessionCookie) \notin SessionIds(sessions))
       => \A p \in promises' :
             p.id = lastOp'.retId
             => ~(p.status = "resolved" /\ p.value.authenticated)]_vars

\* C35: after createUserWithProvider(provider, providerUserId, ...) has
\* returned, an account row for (provider, providerUserId) exists, so that
\* createSessionForProvider(provider, providerUserId) finds a row; also
\* when previousSessionId resolves to a user who has an account with the
\* provider under another provider user id.
C35_AccountExistsAfterSignup ==
    [][lastOp'.op = "createUserWithProvider"
       => getUserAccountByProviderStmt(accounts', lastOp'.input[1],
                                       lastOp'.input[2]) # {}]_vars

\* C36: refreshSession never makes valid a session that was not: after it
\* has run on a session whose expires_at has passed, or on an unknown id,
\* getSessionWithUser still returns null for that id, and no row is created.
C36_RefreshNeverRevives ==
    [][lastOp'.op = "refreshSession"
       => /\ SessionIds(sessions') = SessionIds(sessions)
          /\ getSessionStmt(sessions, lastOp'.arg, now) = {}
             => getSessionStmt(sessions', lastOp'.arg, now) = {}]_vars

\* C37: set on a key that is already in the cache keeps every key of the
\* cache, a full cache included, and leaves the key set as the most
\* recently used.
C37_SetPresentKeyKeepsOthers ==
    [][(/\ lastOp'.op = "lru.set"
        /\ lastOp'.input \in {e.key : e \in lru.cache})
       => /\ {e.key : e \in lru'.cache} = {e.key : e \in lru.cache}
          /\ lru'.newest # NULL
          /\ lru'.nodes[lru'.newest].key = lastOp'.input]_vars

\* C38: when the AbortSignal of the checkAuth call that sent a request is
\* aborted, the other callers that hold the promise of that request, having
\* been returned it from the cache, are not rejected: their promise stays
\* pending, for the server's reply to settle.
C38_AbortRejectsOwnCallOnly ==
    [][(/\ lastOp'.op = "abort"
        /\ \E c, d \in callers :
              c.id = lastOp'.arg /\ d.id = lastOp'.arg /\ c # d)
       => \A p \in promises :
             (p.id = lastOp'.arg /\ p.status = "pending") => p \in promises']_vars

C40_BackToBackDelayNeverDecreases ==
    [][(/\ lastOp.op = "resolve"
        /\ ~lastOp.input.result
        /\ lastOp'.op = "checkInvitationCode"
        /\ ~lastOp'.input.result)
       => lastOp'.input.delay >= lastOp.input.delay]_vars

====
